---- MODULE Spec2Model ----
(***************************************************************************)
(* Model of the Ledger manager: the relay loop that executes the commands  *)
(* of a remote HSM on the device (query_via_websocket) and the paginated   *)
(* listing of the applications installed on the device                     *)
(* (list_installed_apps_raw / list_installed_apps), and the query of the   *)
(* identity of the device (DeviceInfo::new); and the operations built on   *)
(* them: genuine_check, install_bitcoin_app, update_bitcoin_app and, in    *)
(* the GUI, install_app, device_info and get_version_info.                 *)
(*                                                                         *)
(* Strings that the code inspects character by character (hex commands)    *)
(* are sequences of one-character strings; byte buffers are sequences of   *)
(* integers in 0..255; a u32 is the pair of its 16-bit halves.             *)
(***************************************************************************)
EXTENDS Integers, Sequences, FiniteSets, TLC

VARIABLES
    pc,          \* position of the running operation
    msg,         \* relay: the HsmMessage being handled (NoMessage between two)
    bulk_i,      \* relay: position of the `for cmd_hex in commands` loop
    received,    \* relay: type, query and nonce of every message read, in order
    exchanged,   \* every command handed to ledger_api.exchange(), in order
    sent,        \* relay: every reply handed to socket.send(), in order
    answer,      \* the last outcome of ledger_api.exchange()
    result,      \* the value the operation returned, once pc = "done"
    mark,        \* relay: Len(exchanged) and Len(sent) when the last message was read
    i,           \* listing, identity: offset of the next read in the payload (from 0)
    installed_apps,  \* listing: the entries decoded so far
    apps,        \* device: the applications it holds
    served,      \* device: how many of them it has put into batches
    clean,       \* device: every batch so far was well formed
    info,        \* identity: the DeviceInfo, as far as it is decoded
    dev,         \* device: the identity it reports, field by field
    op,          \* operation: which one runs, and for which variant
    ret,         \* operation: the call it waits for ("none" when it makes none)
    requests,    \* operation: every request to the catalog and the relay, in order
    catalog,     \* catalog: its answers to apps/hash and to apps/by-target
    app,         \* update: the application found on the device
    installed_app,   \* update: the catalog record of that application
    latest_app,  \* install, update: the latest catalog record for the device
    firmware_info,   \* genuine check: the perso of the firmware of the device
    url,         \* operation: the parameters the relay channel was opened with
    outcome,     \* operation: what it returned
    actual_device_version,   \* get_version_info: the version known to the caller
    checked,     \* get_version_info: what check_apps_installed returned
    version_info \* get_version_info: the VersionInfo, as far as it is built

relayVars == <<msg, bulk_i, received, sent, mark>>
listVars == <<i, installed_apps, apps, served, clean>>
identVars == <<info, dev>>
guiVars == <<actual_device_version, checked, version_info>>
opsVars ==
    <<op, ret, requests, catalog, app, installed_app, latest_app, firmware_info,
      url, outcome, guiVars>>
vars == <<pc, exchanged, answer, result, relayVars, listVars, identVars, opsVars>>

----------------------------------------------------------------------------
(* Bounds of the model. *)

\* messages the relay loop reads in one run
MaxMsgs == 2
\* entries of one bulk instruction
MaxBulkLen == 2
\* applications on the device
MaxApps == 2
\* answers of the device to one listing
MaxResponses == 4

----------------------------------------------------------------------------
(* Values. *)

\* StatusCode::OK = 0x9000
StatusOK == 36864
\* a status the device reports for a refused command (0x6985)
StatusRefused == 27013

Ok(v) == [ok |-> TRUE, err |-> "", val |-> v]
Err(e) == [ok |-> FALSE, err |-> e, val |-> <<>>]

Last(s) == s[Len(s)]
Front(s) == SubSeq(s, 1, Len(s) - 1)

\* Option<T>
Some(v) == [some |-> TRUE, val |-> v]
None == [some |-> FALSE, val |-> <<>>]

\* a u32, as its two 16-bit halves
U32(hi, lo) == [hi |-> hi, lo |-> lo]

\* DeviceInfo, before anything is decoded
NoInfo ==
    [target_id |-> U32(0, 0), version |-> <<>>, flags |-> <<>>,
     is_bootloader |-> FALSE, se_version |-> None, se_target_id |-> U32(0, 0),
     mcu_version |-> None]
\* BitcoinAppInfo, as far as the operations read it; the name is kept as
\* bytes, the other fields are opaque but for `firmware`, a path such as
\* nanos/2.1.0/bitcoin_testnet/app_2.2.1: the sequence of its parts between
\* '/', each part the sequence of the pieces `replace` can tell apart
BitcoinAppInfo(version_name, version, tag) ==
    [version_name |-> version_name, version |-> version, perso |-> "perso_11",
     delete_key |-> <<tag, "del_key">>,
     firmware |-> << <<"nanos">>, <<tag>>, <<"app_", version>> >>,
     firmware_key |-> <<tag, "key">>, hash |-> <<tag, "hash">>]
NoAppInfo == [BitcoinAppInfo(<<>>, "", "") EXCEPT !.perso = ""]
\* the parameters of the URL of a relay channel, in order
Url(endpoint, names, target_id, a) ==
    [endpoint |-> endpoint, names |-> names, targetId |-> target_id,
     perso |-> a.perso, deleteKey |-> a.delete_key, firmware |-> a.firmware,
     firmwareKey |-> a.firmware_key, hash |-> a.hash]
NoUrl == Url("", <<>>, U32(0, 0), NoAppInfo)
\* what an operation returns: Ok(()), one of the errors of InstallErr and
\* UpdateErr, or a panic; "Running" until it returns
Outcome(kind, e) == [kind |-> kind, err |-> e]
OpRunning == Outcome("Running", "")
\* an answer of the catalog: none yet, a failure of the request, or an array
NotAsked == [state |-> "none", val |-> <<>>]
HttpError == [state |-> "error", val |-> <<>>]
HttpOk(v) == [state |-> "ok", val |-> v]
NoAnswers == [by_hash |-> NotAsked, by_target |-> NotAsked]
\* Version: None, NotInstalled, Installed(v)
VersionNone == [kind |-> "None", v |-> <<>>]
VersionNotInstalled == [kind |-> "NotInstalled", v |-> <<>>]
VersionInstalled(v) == [kind |-> "Installed", v |-> v]
\* VersionInfo {device_model, device_version, mainnet_version, testnet_version}
VersionInfo(model, device_version, mainnet, testnet) ==
    [device_model |-> model, device_version |-> device_version,
     mainnet_version |-> mainnet, testnet_version |-> testnet]
NoVersionInfo == VersionInfo(None, None, None, None)
\* (mainnet, testnet) of check_apps_installed
NotChecked == [mainnet |-> FALSE, testnet |-> FALSE]
\* no operation runs: the state of a relay loop, a listing or an identity
\* query that was called on its own
NoOperation ==
    /\ op = [name |-> "none", is_testnet |-> FALSE]
    /\ ret = "none"
    /\ requests = <<>>
    /\ catalog = NoAnswers
    /\ app = None
    /\ installed_app = None
    /\ latest_app = None
    /\ firmware_info = None
    /\ url = NoUrl
    /\ outcome = OpRunning
    /\ actual_device_version = None
    /\ checked = NotChecked
    /\ version_info = NoVersionInfo

\* the fields the device puts into its answer to the version query: the
\* target id (4 bytes), the version, the flags, and the length-prefixed
\* fields that follow
NoDevice == [target |-> <<0, 0, 0, 0>>, version |-> <<>>, flags |-> <<>>, tail |-> <<>>]

----------------------------------------------------------------------------
(* The hex crate: hex::decode and hex::encode. *)

LowerHex == <<"0","1","2","3","4","5","6","7","8","9","a","b","c","d","e","f">>
UpperHex == <<"0","1","2","3","4","5","6","7","8","9","A","B","C","D","E","F">>

IsHexChar(c) == \E k \in 1..16 : LowerHex[k] = c \/ UpperHex[k] = c
HexVal(c) == (CHOOSE k \in 1..16 : LowerHex[k] = c \/ UpperHex[k] = c) - 1

\* hex::decode: an odd number of characters or a character that is no hex
\* digit is an error; otherwise each pair of digits is one byte.
hex_decode(s) ==
    IF Len(s) % 2 # 0 THEN Err("OddLength")
    ELSE IF \E k \in 1..Len(s) : ~IsHexChar(s[k]) THEN Err("InvalidHexCharacter")
    ELSE Ok([k \in 1..(Len(s) \div 2) |->
                16 * HexVal(s[2 * k - 1]) + HexVal(s[2 * k])])

\* hex::encode: two lower-case digits per byte.
hex_encode(bytes) ==
    [k \in 1..(2 * Len(bytes)) |->
        IF k % 2 = 1 THEN LowerHex[(bytes[(k + 1) \div 2] \div 16) + 1]
        ELSE LowerHex[(bytes[k \div 2] % 16) + 1]]

----------------------------------------------------------------------------
(* deser_apdu_command: a hex string to an APDU command. *)

\* mutant: the declared length of the payload is not compared
deser_apdu_command_AnyLength(hex_str) ==
    LET dec == hex_decode(hex_str) IN
    IF ~dec.ok THEN Err(dec.err)
    ELSE LET bytes == dec.val IN
         IF Len(bytes) < 5 THEN Err("Invalid command")
         ELSE Ok([cla |-> bytes[1], ins |-> bytes[2], p1 |-> bytes[3],
                  p2 |-> bytes[4], data |-> SubSeq(bytes, 6, Len(bytes))])

\* mutant: the payload starts one byte late
deser_apdu_command_ShortPayload(hex_str) ==
    LET dec == hex_decode(hex_str) IN
    IF ~dec.ok THEN Err(dec.err)
    ELSE LET bytes == dec.val IN
         IF Len(bytes) < 5 THEN Err("Invalid command")
         ELSE IF Len(bytes) # 5 + bytes[5] THEN Err("Invalid command")
         ELSE Ok([cla |-> bytes[1], ins |-> bytes[2], p1 |-> bytes[3],
                  p2 |-> bytes[4], data |-> SubSeq(bytes, 7, Len(bytes))])

deser_apdu_command(hex_str) ==
    LET dec == hex_decode(hex_str) IN
    IF ~dec.ok THEN Err(dec.err)
    ELSE LET bytes == dec.val IN
         IF Len(bytes) < 5 THEN Err("Invalid command")
         ELSE IF Len(bytes) # 5 + bytes[5] THEN Err("Invalid command")
         ELSE Ok([cla |-> bytes[1], ins |-> bytes[2], p1 |-> bytes[3],
                  p2 |-> bytes[4], data |-> SubSeq(bytes, 6, Len(bytes))])

----------------------------------------------------------------------------
(* Messages of the relay channel. *)

\* HsmMessageData: absent, a single command, or a list of commands.
DataAbsent == [tag |-> "absent", str |-> <<>>, list |-> <<>>]
DataStr(s) == [tag |-> "string", str |-> s, list |-> <<>>]
DataList(l) == [tag |-> "list", str |-> <<>>, list |-> l]

\* HsmMessage {query, nonce, data}
HsmMessage(q, n, d) == [query |-> q, nonce |-> n, data |-> d]
NoMessage == HsmMessage("", 0, DataAbsent)

\* tungstenite::Message: a text message whose text is JSON of an HsmMessage,
\* a text message that is not, or a message of another type.
TextMsg(j) == [type |-> "Text", valid |-> TRUE, json |-> j]
BadTextMsg == [type |-> "Text", valid |-> FALSE, json |-> NoMessage]
BinaryMsg == [type |-> "Binary", valid |-> FALSE, json |-> NoMessage]
CloseMsg == [type |-> "Close", valid |-> FALSE, json |-> NoMessage]

\* serde_json::from_str::<HsmMessage>(&text)
from_str(m) == IF m.valid THEN Ok(m.json) ELSE Err("serde_json")

\* what `received` keeps of a message
Header(m) ==
    [type |-> m.type, valid |-> m.valid, query |-> m.json.query,
     nonce |-> m.json.nonce, data |-> m.json.data]

\* Hex strings the remote may send.
\* e0 01 00 00 00
CmdA == <<"e","0","0","1","0","0","0","0","0","0">>
\* e0 d8 00 00 01 ab, in mixed case
CmdB == <<"E","0","d","8","0","0","0","0","0","1","A","b">>
\* an odd number of digits
BadOdd == <<"e","0","0">>
\* four bytes: shorter than a header
BadShort == <<"e","0","0","1","0","0","0","0">>
\* declares two payload bytes and carries one
BadLen == <<"e","0","0","1","0","0","0","0","0","2","a","a">>
\* not hex
BadChar == <<"e","0","0","1","0","0","0","0","z","z">>
\* declares no payload and carries one byte
BadLong == <<"e","0","0","1","0","0","0","0","0","0","a","a">>
Empty == <<>>
\* the text of an error or warning
Detail == <<"o","o","p","s">>

Nonces == {1, 2147483647}
BulkNonces == {2}
ExchangeData ==
    {DataStr(s) : s \in {CmdA, CmdB, BadOdd, BadShort, BadLen, BadLong, BadChar, Empty}}
        \cup {DataAbsent, DataList(<<CmdA>>)}
BulkEntries == {CmdA, CmdB, Empty, BadLen}
BulkLists == UNION {[1..n -> BulkEntries] : n \in 0..MaxBulkLen}
BulkData == {DataList(l) : l \in BulkLists} \cup {DataAbsent, DataStr(CmdA)}

Inbound ==
    {TextMsg(HsmMessage("exchange", n, d)) : n \in Nonces, d \in ExchangeData}
        \cup {TextMsg(HsmMessage("bulk", n, d)) : n \in BulkNonces, d \in BulkData}
        \cup {TextMsg(HsmMessage(q, 7, d)) :
                q \in {"success", "error", "warning", "Success", "status"},
                d \in {DataAbsent, DataStr(Detail)}}
        \cup {BadTextMsg, BinaryMsg, CloseMsg}

----------------------------------------------------------------------------
(* The device channel: ledger_api.exchange(). *)

\* APDUAnswer {retcode, data}, or the transport's error.
Answer(r, d) == [ok |-> TRUE, retcode |-> r, data |-> d]
TransportError == [ok |-> FALSE, retcode |-> 0, data |-> <<>>]
RelayAnswers ==
    {Answer(r, d) : r \in {StatusOK, StatusRefused}, d \in {<<>>, <<171, 1>>}}
        \cup {TransportError}

----------------------------------------------------------------------------
(* Results. *)

Running == [kind |-> "Running", err |-> "", text |-> NoMessage]
Success == [kind |-> "Ok", err |-> "", text |-> NoMessage]
Failure(e) == [kind |-> "Err", err |-> e, text |-> NoMessage]
FailureWith(e, j) == [kind |-> "Err", err |-> e, text |-> j]

----------------------------------------------------------------------------
(* query_via_websocket: the relay loop. *)

\* `return Err(..)` / `?`: the loop ends, nothing else happens.
Return(r) ==
    /\ pc' = "done"
    /\ result' = r
    /\ UNCHANGED <<bulk_i, exchanged, sent, answer>>

\* mutant: the device status is not looked at
ExchangeReply_AlwaysSuccess(nonce, resp) ==
    [nonce |-> nonce, response |-> "success", data |-> hex_encode(resp.data)]

\* the reply to an `exchange` instruction
ExchangeReply(nonce, resp) ==
    [nonce |-> nonce,
     response |-> IF resp.retcode = StatusOK THEN "success" ELSE "error",
     data |-> hex_encode(resp.data)]

\* mutant: the reply does not take the nonce of the instruction
BulkReplyMsg_NoNonce(nonce) == [nonce |-> 0, response |-> "success", data |-> <<>>]

\* the reply to a `bulk` instruction
BulkReplyMsg(nonce) == [nonce |-> nonce, response |-> "success", data |-> <<>>]

\* msg.query == "exchange"
OnExchange(j) ==
    /\ msg' = j
    /\ IF j.data.tag # "string"
       THEN Return(Failure("A single command is expected in 'exchange' mode."))
       ELSE LET command == deser_apdu_command(j.data.str) IN
            IF ~command.ok THEN Return(Failure(command.err))
            ELSE /\ pc' = "exchange"
                 /\ exchanged' = Append(exchanged, command.val)
                 /\ UNCHANGED <<bulk_i, sent, answer, result>>

\* mutant: a single command is taken for a list of one command
OnBulk_SingleCommand(j) ==
    /\ msg' = j
    /\ IF j.data.tag = "absent"
       THEN Return(Failure("Expecting a list of commands in bulk mode."))
       ELSE /\ pc' = "bulk"
            /\ bulk_i' = 1
            /\ UNCHANGED <<exchanged, sent, answer, result>>

\* msg.query == "bulk"
OnBulk(j) ==
    /\ msg' = j
    /\ IF j.data.tag # "list"
       THEN Return(Failure("Expecting a list of commands in bulk mode."))
       ELSE /\ pc' = "bulk"
            /\ bulk_i' = 1
            /\ UNCHANGED <<exchanged, sent, answer, result>>

\* msg.query == "success"
OnSuccess(j) == msg' = j /\ Return(Success)

\* mutant: the error that is returned does not carry the message
OnError_NoDetail(j) ==
    msg' = j /\ Return(Failure("Got an 'error' query on the ws."))

\* msg.query == "error"
OnError(j) ==
    msg' = j /\ Return(FailureWith("Got an 'error' query on the ws.", j))

\* mutant: a warning ends the loop
OnWarning_Fatal(j) ==
    msg' = j /\ Return(FailureWith("Got a 'warning' query on the ws.", j))

\* msg.query == "warning": logged, and the loop goes round
OnWarning(j) ==
    /\ msg' = NoMessage
    /\ pc' = "read"
    /\ UNCHANGED <<bulk_i, exchanged, sent, answer, result>>

\* mutant: a query that is not known is skipped
OnOther_Ignored(j) ==
    /\ msg' = NoMessage
    /\ pc' = "read"
    /\ UNCHANGED <<bulk_i, exchanged, sent, answer, result>>

\* any other query
OnOther(j) ==
    msg' = j /\ Return(FailureWith("Got an unsupported query on the ws.", j))

\* a message that is not Message::Text
OnNonText(m) ==
    /\ UNCHANGED msg
    /\ Return(Failure("Got an unsupported message type on the ws."))

\* the if / else if chain on msg.query
Dispatch(j) ==
    IF j.query = "exchange" THEN OnExchange(j)
    ELSE IF j.query = "bulk" THEN OnBulk(j)
    ELSE IF j.query = "success" THEN OnSuccess(j)
    ELSE IF j.query = "error" THEN OnError(j)
    ELSE IF j.query = "warning" THEN OnWarning(j)
    ELSE OnOther(j)

\* mutant: a message is read after the loop has returned
SocketRead_AfterReturn ==
    /\ UNCHANGED <<listVars, identVars, opsVars>>
    /\ pc \in {"read", "done"}
    /\ Len(received) < MaxMsgs
    /\ \E m \in Inbound :
        /\ received' = Append(received, Header(m))
        /\ mark' = [exch |-> Len(exchanged), sent |-> Len(sent)]
        /\ IF m.type # "Text" THEN OnNonText(m)
           ELSE LET parsed == from_str(m) IN
                IF ~parsed.ok THEN Return(Failure(parsed.err)) /\ UNCHANGED msg
                ELSE Dispatch(parsed.val)

\* socket.read()? returned a message: match msg { Text(text) => .., _ => .. }
SocketRead ==
    /\ UNCHANGED <<listVars, identVars, opsVars>>
    /\ pc = "read"
    /\ Len(received) < MaxMsgs
    /\ \E m \in Inbound :
        /\ received' = Append(received, Header(m))
        /\ mark' = [exch |-> Len(exchanged), sent |-> Len(sent)]
        /\ IF m.type # "Text" THEN OnNonText(m)
           ELSE LET parsed == from_str(m) IN
                IF ~parsed.ok THEN Return(Failure(parsed.err)) /\ UNCHANGED msg
                ELSE Dispatch(parsed.val)

\* mutant: the loop gives up when no message comes
SocketReadFail_Timeout ==
    /\ UNCHANGED <<listVars, identVars, opsVars>>
    /\ pc = "read"
    /\ Return(Failure("timeout"))
    /\ UNCHANGED <<msg, received, mark>>

\* socket.read()? failed
SocketReadFail ==
    /\ UNCHANGED <<listVars, identVars, opsVars>>
    /\ pc = "read"
    /\ Return(Failure("socket read"))
    /\ UNCHANGED <<msg, received, mark>>

\* mutant: the reply is sent twice
Send_Twice(reply) ==
    /\ sent' = sent \o <<reply, reply>>
    /\ \E delivered \in BOOLEAN :
        IF delivered THEN pc' = "read" /\ msg' = NoMessage /\ UNCHANGED result
        ELSE pc' = "done" /\ result' = Failure("socket send") /\ UNCHANGED msg

\* socket.send(reply)?: the reply is handed to the channel and the loop goes
\* round; a failure of the channel ends the loop.
Send(reply) ==
    /\ sent' = Append(sent, reply)
    /\ \E delivered \in BOOLEAN :
        IF delivered THEN pc' = "read" /\ msg' = NoMessage /\ UNCHANGED result
        ELSE pc' = "done" /\ result' = Failure("socket send") /\ UNCHANGED msg

\* mutant: a command the device refused is handed to it again
ExchangeReturn_Retry ==
    /\ UNCHANGED <<listVars, identVars, opsVars>>
    /\ pc = "exchange"
    /\ \E a \in RelayAnswers :
        /\ answer' = a
        /\ IF ~a.ok
           THEN /\ pc' = "done"
                /\ result' = Failure("transport")
                /\ UNCHANGED <<msg, sent, exchanged>>
           ELSE IF a.retcode # StatusOK /\ Len(exchanged) = mark.exch + 1
           THEN /\ exchanged' = Append(exchanged, Last(exchanged))
                /\ UNCHANGED <<pc, msg, sent, result>>
           ELSE Send(ExchangeReply(msg.nonce, a)) /\ UNCHANGED exchanged
    /\ UNCHANGED <<bulk_i, received, mark>>

\* ledger_api.exchange(&command)? returned, in `exchange` mode
ExchangeReturn ==
    /\ UNCHANGED <<listVars, identVars, opsVars>>
    /\ pc = "exchange"
    /\ \E a \in RelayAnswers :
        /\ answer' = a
        /\ IF ~a.ok
           THEN /\ pc' = "done"
                /\ result' = Failure("transport")
                /\ UNCHANGED <<msg, sent>>
           ELSE Send(ExchangeReply(msg.nonce, a))
    /\ UNCHANGED <<bulk_i, received, exchanged, mark>>

\* if cmd_hex.is_empty() { continue; }
IsSkipped(cmd_hex) == cmd_hex = <<>>

\* mutant: an entry that does not decode is skipped like an empty one
BulkNext_SkipMalformed ==
    /\ UNCHANGED <<listVars, identVars, opsVars>>
    /\ pc = "bulk"
    /\ bulk_i <= Len(msg.data.list)
    /\ LET cmd_hex == msg.data.list[bulk_i] IN
       IF IsSkipped(cmd_hex) \/ ~deser_apdu_command(cmd_hex).ok
       THEN /\ bulk_i' = bulk_i + 1
            /\ UNCHANGED <<pc, exchanged, sent, answer, result>>
       ELSE /\ pc' = "bulk_exchange"
            /\ exchanged' = Append(exchanged, deser_apdu_command(cmd_hex).val)
            /\ UNCHANGED <<bulk_i, sent, answer, result>>
    /\ UNCHANGED <<msg, received, mark>>

\* mutant: the next command is handed to the device before the exchange of
\* the previous one returned
BulkNext_NoWait ==
    /\ UNCHANGED <<listVars, identVars, opsVars>>
    /\ pc \in {"bulk", "bulk_exchange"}
    /\ bulk_i <= Len(msg.data.list)
    /\ LET cmd_hex == msg.data.list[bulk_i] IN
       IF IsSkipped(cmd_hex)
       THEN /\ bulk_i' = bulk_i + 1
            /\ UNCHANGED <<pc, exchanged, sent, answer, result>>
       ELSE LET command == deser_apdu_command(cmd_hex) IN
            IF ~command.ok THEN Return(Failure(command.err))
            ELSE /\ pc' = "bulk_exchange"
                 /\ exchanged' = Append(exchanged, command.val)
                 /\ UNCHANGED <<bulk_i, sent, answer, result>>
    /\ UNCHANGED <<msg, received, mark>>

\* one pass of `for cmd_hex in commands` up to the call of the device
BulkNext ==
    /\ UNCHANGED <<listVars, identVars, opsVars>>
    /\ pc = "bulk"
    /\ bulk_i <= Len(msg.data.list)
    /\ LET cmd_hex == msg.data.list[bulk_i] IN
       IF IsSkipped(cmd_hex)
       THEN /\ bulk_i' = bulk_i + 1
            /\ UNCHANGED <<pc, exchanged, sent, answer, result>>
       ELSE LET command == deser_apdu_command(cmd_hex) IN
            IF ~command.ok THEN Return(Failure(command.err))
            ELSE /\ pc' = "bulk_exchange"
                 /\ exchanged' = Append(exchanged, command.val)
                 /\ UNCHANGED <<bulk_i, sent, answer, result>>
    /\ UNCHANGED <<msg, received, mark>>

\* mutant: a status other than OK ends the bulk
BulkExchangeReturn_CheckStatus ==
    /\ UNCHANGED <<listVars, identVars, opsVars>>
    /\ pc = "bulk_exchange"
    /\ \E a \in RelayAnswers :
        IF ~a.ok
        THEN pc' = "done" /\ result' = Failure("transport") /\ UNCHANGED bulk_i
        ELSE IF a.retcode # StatusOK
        THEN pc' = "done" /\ result' = Failure("status") /\ UNCHANGED bulk_i
        ELSE pc' = "bulk" /\ bulk_i' = bulk_i + 1 /\ UNCHANGED result
    /\ UNCHANGED <<msg, received, exchanged, sent, answer, mark>>

\* let _ = ledger_api.exchange(&command)?; returned, in `bulk` mode: the
\* answer is dropped
BulkExchangeReturn ==
    /\ UNCHANGED <<listVars, identVars, opsVars>>
    /\ pc = "bulk_exchange"
    /\ \E a \in RelayAnswers :
        IF ~a.ok
        THEN pc' = "done" /\ result' = Failure("transport") /\ UNCHANGED bulk_i
        ELSE pc' = "bulk" /\ bulk_i' = bulk_i + 1 /\ UNCHANGED result
    /\ UNCHANGED <<msg, received, exchanged, sent, answer, mark>>

\* the list is exhausted: the single reply of a bulk instruction
BulkReply ==
    /\ UNCHANGED <<listVars, identVars, opsVars>>
    /\ pc = "bulk"
    /\ bulk_i > Len(msg.data.list)
    /\ Send(BulkReplyMsg(msg.nonce))
    /\ UNCHANGED <<bulk_i, received, exchanged, answer, mark>>

InitRelay ==
    /\ pc = "read"
    /\ msg = NoMessage
    /\ bulk_i = 0
    /\ received = <<>>
    /\ exchanged = <<>>
    /\ sent = <<>>
    /\ answer = TransportError
    /\ result = Running
    /\ mark = [exch |-> 0, sent |-> 0]
    /\ i = 0
    /\ installed_apps = <<>>
    /\ apps = <<>>
    /\ served = 0
    /\ clean = TRUE
    /\ info = NoInfo
    /\ dev = NoDevice
    /\ NoOperation

NextRelay ==
    \/ SocketRead
    \/ SocketReadFail
    \/ ExchangeReturn
    \/ BulkNext
    \/ BulkExchangeReturn
    \/ BulkReply

SpecRelay == InitRelay /\ [][NextRelay]_vars

\* The loop runs and the device answers every exchange: a call of
\* ledger_api.exchange returns, and the code between two blocking calls is
\* executed. Nothing is assumed of socket.read(): the remote may stay silent.
FairRelay ==
    /\ WF_vars(ExchangeReturn)
    /\ WF_vars(BulkNext)
    /\ WF_vars(BulkExchangeReturn)
    /\ WF_vars(BulkReply)

SpecRelayLive == SpecRelay /\ FairRelay

----------------------------------------------------------------------------
(* list_installed_apps_raw: the paginated listing of the installed apps. *)

LIST_APPS_COMMAND ==
    [cla |-> 224, ins |-> 222, p1 |-> 0, p2 |-> 0, data |-> <<>>]
CONTINUE_LIST_APPS_COMMAND ==
    [cla |-> 224, ins |-> 223, p1 |-> 0, p2 |-> 0, data |-> <<>>]

\* the byte every batch starts with
Marker == 1
\* 1 + 2 + 2 + 32 + 32 + 1: the bytes of an entry before its name
EntryHeaderLen == 70
\* bytes of a hash
HashLen == 32
\* the status of a locked device (0x5515)
StatusLocked == 21781

\* Rust's data[k] and data[a..b], on a sequence indexed from 1
At(d, k) == d[k + 1]
Slice(d, a, b) == SubSeq(d, a + 1, b)

\* mutant: the two bytes are read the wrong way round
u16_from_le_bytes(b) == b[2] * 256 + b[1]

u16_from_be_bytes(b) == b[1] * 256 + b[2]

\* str::from_utf8, for the bytes the model uses: ASCII, and 0xff which no
\* UTF-8 text holds
from_utf8(b) ==
    IF \A k \in 1..Len(b) : b[k] < 128 THEN Ok(b) ELSE Err("Utf8Error")

InstalledApp(name, hash, hash_code_data, blocks, flags) ==
    [name |-> name, hash |-> hash, hash_code_data |-> hash_code_data,
     blocks |-> blocks, flags |-> flags]

\* The device side: the entries it holds and the bytes it sends for them.
HashOf(b) == [k \in 1..HashLen |-> (b + k) % 256]
\* "Bitcoin"
NameBitcoin == <<66, 105, 116, 99, 111, 105, 110>>
\* "Bitcoin Test"
NameBitcoinTest == <<66, 105, 116, 99, 111, 105, 110, 32, 84, 101, 115, 116>>
AppChoices ==
    {InstalledApp(NameBitcoin, HashOf(16), HashOf(48), 258, 0),
     InstalledApp(NameBitcoinTest, HashOf(80), HashOf(112), 65535, 513),
     InstalledApp(<<>>, HashOf(144), HashOf(16), 0, 65280)}
AppLists == UNION {[1..n -> AppChoices] : n \in 0..MaxApps}
\* devices that report the names of the applications in another casing:
\* "bitcoin" and "BITCOIN TEST"
CasedInventories ==
    {<<InstalledApp(<<98, 105, 116, 99, 111, 105, 110>>,
                    HashOf(16), HashOf(48), 258, 0)>>,
     <<InstalledApp(<<66, 73, 84, 67, 79, 73, 78, 32, 84, 69, 83, 84>>,
                    HashOf(80), HashOf(112), 65535, 513)>>}

\* one entry on the wire: length, blocks, flags, code hash, hash, name length, name
EncodeEntry(a) ==
    <<EntryHeaderLen + Len(a.name)>>
        \o <<a.blocks \div 256, a.blocks % 256>>
        \o <<a.flags \div 256, a.flags % 256>>
        \o a.hash_code_data
        \o a.hash
        \o <<Len(a.name)>>
        \o a.name
RECURSIVE EncodeEntries(_)
EncodeEntries(l) ==
    IF l = <<>> THEN <<>> ELSE EncodeEntry(Head(l)) \o EncodeEntries(Tail(l))
\* a batch: the marker, then whole entries
Batch(l) == <<Marker>> \o EncodeEntries(l)

\* what a faulty device does to a batch
Corruptions == {"marker", "length", "truncated", "length_truncated", "name"}
Corrupt(b, how) ==
    IF how = "marker" THEN [b EXCEPT ![1] = 2]
    ELSE IF how = "length" THEN [b EXCEPT ![2] = (@ + 1) % 256]
    ELSE IF how = "truncated" THEN SubSeq(b, 1, Len(b) - 1)
    ELSE IF how = "length_truncated"
    THEN SubSeq([b EXCEPT ![2] = (@ + 1) % 256], 1, Len(b) - 1)
    ELSE [b EXCEPT ![Len(b)] = 255]

ListStatuses == {StatusOK, StatusLocked}

\* ledger_api.exchange(&command)?: the command goes to the device, which
\* answers with the next batch (whole entries, as many as it likes), with an
\* empty payload, or with a batch that is not well formed; or the transport
\* fails.
DeviceList(command, next) ==
    /\ exchanged' = Append(exchanged, command)
    /\ \/ /\ Len(exchanged) + 1 < MaxResponses
          /\ \E k \in 0..(Len(apps) - served), r \in ListStatuses :
                LET b == Batch(SubSeq(apps, served + 1, served + k)) IN
                /\ served' = served + k
                /\ \/ answer' = Answer(r, b) /\ UNCHANGED clean
                   \/ /\ k > 0
                      /\ r = StatusOK
                      /\ \E how \in Corruptions :
                            answer' = Answer(r, Corrupt(b, how))
                      /\ clean' = FALSE
          /\ pc' = next
          /\ UNCHANGED result
       \/ /\ \E r \in ListStatuses : answer' = Answer(r, <<>>)
          /\ pc' = next
          /\ UNCHANGED <<served, clean, result>>
       \/ /\ answer' = TransportError
          /\ pc' = "done"
          /\ result' = Failure("transport")
          /\ UNCHANGED <<served, clean>>

\* let mut answer = ledger_api.exchange(&LIST_APPS_COMMAND)?;
ListApps ==
    /\ UNCHANGED <<relayVars, identVars, opsVars>>
    /\ pc = "list"
    /\ DeviceList(LIST_APPS_COMMAND, "batch")
    /\ UNCHANGED <<i, installed_apps, apps>>

\* mutant: a response with a failure status ends the listing in an error
BatchHead_CheckStatus ==
    /\ UNCHANGED <<relayVars, identVars, opsVars>>
    /\ pc = "batch"
    /\ LET data == answer.data IN
       IF answer.retcode # StatusOK
       THEN pc' = "done" /\ result' = Failure("status") /\ UNCHANGED i
       ELSE IF data = <<>>
       THEN pc' = "done" /\ result' = Success /\ UNCHANGED i
       ELSE IF At(data, 0) # Marker
       THEN pc' = "done" /\ result' = [Running EXCEPT !.kind = "Panic"] /\ UNCHANGED i
       ELSE pc' = "entry" /\ i' = 1 /\ UNCHANGED result
    /\ UNCHANGED <<exchanged, answer, installed_apps, apps, served, clean>>

\* while !data.is_empty() { let mut i = 0; assert_eq!(data[i], 0x01); i += 1;
BatchHead ==
    /\ UNCHANGED <<relayVars, identVars, opsVars>>
    /\ pc = "batch"
    /\ LET data == answer.data IN
       IF data = <<>>
       THEN pc' = "done" /\ result' = Success /\ UNCHANGED i
       ELSE IF At(data, 0) # Marker
       THEN pc' = "done" /\ result' = [Running EXCEPT !.kind = "Panic"] /\ UNCHANGED i
       ELSE pc' = "entry" /\ i' = 1 /\ UNCHANGED result
    /\ UNCHANGED <<exchanged, answer, installed_apps, apps, served, clean>>

\* mutant: the declared length of an entry is not compared
ListEntry_NoLengthCheck ==
    /\ UNCHANGED <<relayVars, identVars, opsVars>>
    /\ pc = "entry"
    /\ LET data == answer.data IN
       /\ i < Len(data)
       /\ IF Len(data) < i + 1 + 2 + 2 + HashLen + HashLen + 1
          THEN /\ pc' = "done"
               /\ result' = Failure("Not enough data")
               /\ UNCHANGED <<i, installed_apps>>
          ELSE LET len == At(data, i)
                   blocks == u16_from_be_bytes(Slice(data, i + 1, i + 3))
                   flags == u16_from_be_bytes(Slice(data, i + 3, i + 5))
                   hash_code_data == Slice(data, i + 5, i + 5 + HashLen)
                   hash == Slice(data, i + 5 + HashLen, i + 5 + 2 * HashLen)
                   name_len == At(data, i + 5 + 2 * HashLen)
                   at == i + 6 + 2 * HashLen
               IN
               IF Len(data) < at + name_len
               THEN /\ pc' = "done"
                    /\ result' = Failure("Not enough data")
                    /\ UNCHANGED <<i, installed_apps>>
               ELSE LET name == from_utf8(Slice(data, at, at + name_len)) IN
                    IF ~name.ok
                    THEN /\ pc' = "done"
                         /\ result' = Failure(name.err)
                         /\ UNCHANGED <<i, installed_apps>>
                    ELSE /\ installed_apps' =
                              Append(installed_apps,
                                     InstalledApp(name.val, hash, hash_code_data,
                                                  blocks, flags))
                         /\ i' = at + name_len
                         /\ UNCHANGED <<pc, result>>
    /\ UNCHANGED <<exchanged, answer, apps, served, clean>>

\* mutant: the declared length is compared before the name is known to be there
ListEntry_LengthFirst ==
    /\ UNCHANGED <<relayVars, identVars, opsVars>>
    /\ pc = "entry"
    /\ LET data == answer.data IN
       /\ i < Len(data)
       /\ IF Len(data) < i + 1 + 2 + 2 + HashLen + HashLen + 1
          THEN /\ pc' = "done"
               /\ result' = Failure("Not enough data")
               /\ UNCHANGED <<i, installed_apps>>
          ELSE LET len == At(data, i)
                   blocks == u16_from_be_bytes(Slice(data, i + 1, i + 3))
                   flags == u16_from_be_bytes(Slice(data, i + 3, i + 5))
                   hash_code_data == Slice(data, i + 5, i + 5 + HashLen)
                   hash == Slice(data, i + 5 + HashLen, i + 5 + 2 * HashLen)
                   name_len == At(data, i + 5 + 2 * HashLen)
                   at == i + 6 + 2 * HashLen
               IN
               IF len # name_len + EntryHeaderLen
               THEN /\ pc' = "done"
                    /\ result' = Failure("Invalid listApps length data.")
                    /\ UNCHANGED <<i, installed_apps>>
               ELSE IF Len(data) < at + name_len
               THEN /\ pc' = "done"
                    /\ result' = Failure("Not enough data")
                    /\ UNCHANGED <<i, installed_apps>>
               ELSE LET name == from_utf8(Slice(data, at, at + name_len)) IN
                    IF ~name.ok
                    THEN /\ pc' = "done"
                         /\ result' = Failure(name.err)
                         /\ UNCHANGED <<i, installed_apps>>
                    ELSE /\ installed_apps' =
                              Append(installed_apps,
                                     InstalledApp(name.val, hash, hash_code_data,
                                                  blocks, flags))
                         /\ i' = at + name_len
                         /\ UNCHANGED <<pc, result>>
    /\ UNCHANGED <<exchanged, answer, apps, served, clean>>

\* the offsets of the batch one pass of `while i < data.len()` reads
EntryReads(data, at) ==
    IF Len(data) < at + 1 + 2 + 2 + HashLen + HashLen + 1 THEN {}
    ELSE LET name_len == At(data, at + 5 + 2 * HashLen)
             name_at == at + 6 + 2 * HashLen
         IN (at..(name_at - 1))
                \cup (IF Len(data) < name_at + name_len THEN {}
                      ELSE name_at..(name_at + name_len - 1))

\* one pass of `while i < data.len()`
ListEntry ==
    /\ UNCHANGED <<relayVars, identVars, opsVars>>
    /\ pc = "entry"
    /\ LET data == answer.data IN
       /\ i < Len(data)
       /\ IF Len(data) < i + 1 + 2 + 2 + HashLen + HashLen + 1
          THEN /\ pc' = "done"
               /\ result' = Failure("Not enough data")
               /\ UNCHANGED <<i, installed_apps>>
          ELSE LET len == At(data, i)
                   blocks == u16_from_be_bytes(Slice(data, i + 1, i + 3))
                   flags == u16_from_be_bytes(Slice(data, i + 3, i + 5))
                   hash_code_data == Slice(data, i + 5, i + 5 + HashLen)
                   hash == Slice(data, i + 5 + HashLen, i + 5 + 2 * HashLen)
                   name_len == At(data, i + 5 + 2 * HashLen)
                   at == i + 6 + 2 * HashLen
               IN
               IF Len(data) < at + name_len
               THEN /\ pc' = "done"
                    /\ result' = Failure("Not enough data")
                    /\ UNCHANGED <<i, installed_apps>>
               ELSE IF len # name_len + EntryHeaderLen
               THEN /\ pc' = "done"
                    /\ result' = Failure("Invalid listApps length data.")
                    /\ UNCHANGED <<i, installed_apps>>
               ELSE LET name == from_utf8(Slice(data, at, at + name_len)) IN
                    IF ~name.ok
                    THEN /\ pc' = "done"
                         /\ result' = Failure(name.err)
                         /\ UNCHANGED <<i, installed_apps>>
                    ELSE /\ installed_apps' =
                              Append(installed_apps,
                                     InstalledApp(name.val, hash, hash_code_data,
                                                  blocks, flags))
                         /\ i' = at + name_len
                         /\ UNCHANGED <<pc, result>>
    /\ UNCHANGED <<exchanged, answer, apps, served, clean>>

\* mutant: the continuation is asked for before the batch is exhausted
ListContinue_Early ==
    /\ UNCHANGED <<relayVars, identVars, opsVars>>
    /\ pc = "entry"
    /\ DeviceList(CONTINUE_LIST_APPS_COMMAND, "batch")
    /\ UNCHANGED <<i, installed_apps, apps>>

\* the batch is exhausted: answer = ledger_api.exchange(&CONTINUE_LIST_APPS_COMMAND)?;
ListContinue ==
    /\ UNCHANGED <<relayVars, identVars, opsVars>>
    /\ pc = "entry"
    /\ i >= Len(answer.data)
    /\ DeviceList(CONTINUE_LIST_APPS_COMMAND, "batch")
    /\ UNCHANGED <<i, installed_apps, apps>>

InitList ==
    /\ pc = "list"
    /\ msg = NoMessage
    /\ bulk_i = 0
    /\ received = <<>>
    /\ exchanged = <<>>
    /\ sent = <<>>
    /\ answer = TransportError
    /\ result = Running
    /\ mark = [exch |-> 0, sent |-> 0]
    /\ i = 0
    /\ installed_apps = <<>>
    /\ apps \in AppLists
    /\ served = 0
    /\ clean = TRUE
    /\ info = NoInfo
    /\ dev = NoDevice
    /\ NoOperation

NextList ==
    \/ ListApps
    \/ BatchHead
    \/ ListEntry
    \/ ListContinue

SpecList == InitList /\ [][NextList]_vars

----------------------------------------------------------------------------
(* DeviceInfo::new: the identity of the device. *)

GET_VERSION_COMMAND ==
    [cla |-> 224, ins |-> 1, p1 |-> 0, p2 |-> 0, data |-> <<>>]

\* u32::from_be_bytes, of four bytes
u32_from_be_bytes(b) == U32(b[1] * 256 + b[2], b[3] * 256 + b[4])

\* a & b on naturals
RECURSIVE BitAnd(_, _)
BitAnd(a, b) ==
    IF a = 0 \/ b = 0 THEN 0
    ELSE (a % 2) * (b % 2) + 2 * BitAnd(a \div 2, b \div 2)
\* a & b on u32
u32_and(a, b) == U32(BitAnd(a.hi, b.hi), BitAnd(a.lo, b.lo))

\* 4026531840 = 0xF0000000
BootloaderMask == U32(61440, 0)
\* 805306368 = 0x30000000
ApplicationTag == U32(12288, 0)

\* mutant: the whole first byte is compared
is_bootloader_FirstByte(target_id) ==
    u32_and(target_id, U32(65280, 0)) # ApplicationTag

\* let is_bootloader = (target_id & 4026531840) != 805306368;
is_bootloader(target_id) == u32_and(target_id, BootloaderMask) # ApplicationTag

\* mutant: every trailing NUL is removed
RECURSIVE strip_nul_All(_)
strip_nul_All(mcu) ==
    IF mcu # <<>> /\ Last(mcu) = 0 THEN strip_nul_All(Front(mcu)) ELSE mcu

\* if mcu[mcu.len() - 1] == 0 { &mcu[..mcu.len() - 1] } else { mcu }, for a
\* field that is not empty
strip_nul(mcu) == IF Last(mcu) = 0 THEN Front(mcu) ELSE mcu

\* a panic of the thread: an unwrap() of an error, an index outside a slice
Panic == [kind |-> "Panic", err |-> "", text |-> NoMessage]

\* The device side.
\* 0x33000004, 0x01000001, 0xb3000004
TargetChoices == {<<51, 0, 0, 4>>, <<1, 0, 0, 1>>, <<179, 0, 0, 4>>}
\* "2.1", and bytes that are no UTF-8 text
VersionChoices == {<<50, 46, 49>>, <<255>>}
FlagsChoices == {<<>>, <<1, 2>>}
\* the fields after the flags: nothing, a NUL, "2.1", "2.1" and one or two
\* NULs, "1.6.0", and five bytes that are no UTF-8 text
FieldChoices ==
    {<<>>, <<0>>, <<50, 46, 49>>, <<50, 46, 49, 0>>, <<50, 46, 49, 0, 0>>,
     <<49, 46, 54, 46, 48>>, <<255, 46, 54, 46, 48>>}
\* length-prefixed fields after the flags
MaxTail == 2
Devices ==
    [target : TargetChoices, version : VersionChoices, flags : FlagsChoices,
     tail : UNION {[1..n -> FieldChoices] : n \in 1..MaxTail}]

\* [1-byte length][payload]
Prefixed(f) == <<Len(f)>> \o f
RECURSIVE EncodeFields(_)
EncodeFields(l) ==
    IF l = <<>> THEN <<>> ELSE Prefixed(Head(l)) \o EncodeFields(Tail(l))
\* the payload of the answer to the version query
EncodeIdentity(v) ==
    v.target \o Prefixed(v.version) \o Prefixed(v.flags) \o EncodeFields(v.tail)

\* the operations of the GUI: they call the DeviceInfo::new and the
\* list_installed_apps of src/ledger.rs
GuiOperations == {"install_app", "get_version_info"}
\* the DeviceInfo::new of the library looks at ver_answer.retcode(); the one
\* of the GUI does not
ChecksStatus == op.name \notin GuiOperations


\* ledger_api.exchange(&GET_VERSION_COMMAND)? and the test of the status: the
\* device answers with its identity, whole or cut short, or with a status
\* that is not OK; or the transport fails.
GetVersion ==
    /\ UNCHANGED <<relayVars, installed_apps, apps, served, clean, opsVars>>
    /\ pc = "version"
    /\ exchanged' = Append(exchanged, GET_VERSION_COMMAND)
    /\ \E a \in {Answer(StatusOK, SubSeq(EncodeIdentity(dev), 1, n)) :
                    n \in 0..Len(EncodeIdentity(dev))}
                \cup {Answer(r, d) : r \in {StatusLocked, StatusRefused},
                                     d \in {<<>>, EncodeIdentity(dev)}}
                \cup {TransportError} :
        /\ answer' = a
        /\ IF ~a.ok
           THEN pc' = "done" /\ result' = Failure("transport")
           ELSE IF ChecksStatus /\ a.retcode = StatusLocked
           THEN pc' = "done" /\ result' = Failure("Device is locked.")
           ELSE IF ChecksStatus /\ a.retcode # StatusOK
           THEN pc' = "done" /\ result' = Failure("Device isn't ready.")
           ELSE pc' = "head" /\ UNCHANGED result
    /\ i' = 0
    /\ UNCHANGED identVars

\* target_id, version and flags, and is_bootloader
DecodeHead ==
    /\ UNCHANGED <<relayVars, installed_apps, apps, served, clean, opsVars>>
    /\ pc = "head"
    /\ LET data == answer.data IN
       IF Len(data) < 5
       THEN pc' = "done" /\ result' = Failure("Not enough data") /\ UNCHANGED <<i, info>>
       ELSE LET target_id == u32_from_be_bytes(Slice(data, i, i + 4))
                raw_ver_len == At(data, i + 4)
                ver_at == i + 5
            IN
            IF Len(data) < ver_at + raw_ver_len + 1
            THEN pc' = "done" /\ result' = Failure("Not enough data") /\ UNCHANGED <<i, info>>
            ELSE LET version == from_utf8(Slice(data, ver_at, ver_at + raw_ver_len))
                     flags_len == At(data, ver_at + raw_ver_len)
                     flags_at == ver_at + raw_ver_len + 1
                 IN
                 IF ~version.ok
                 THEN pc' = "done" /\ result' = Failure(version.err) /\ UNCHANGED <<i, info>>
                 ELSE IF Len(data) < flags_at + flags_len
                 THEN pc' = "done" /\ result' = Failure("Not enough data") /\ UNCHANGED <<i, info>>
                 ELSE /\ i' = flags_at + flags_len
                      /\ info' = [info EXCEPT
                                    !.target_id = target_id,
                                    !.version = version.val,
                                    !.flags = Slice(data, flags_at, flags_at + flags_len),
                                    !.is_bootloader = is_bootloader(target_id)]
                      /\ pc' = IF is_bootloader(target_id) THEN "bootloader" ELSE "application"
                      /\ UNCHANGED result
    /\ UNCHANGED <<exchanged, answer, dev>>

\* the branch of a device in bootloader mode
DecodeBootloader ==
    /\ UNCHANGED <<relayVars, installed_apps, apps, served, clean, opsVars>>
    /\ pc = "bootloader"
    /\ pc' = "done"
    /\ LET data == answer.data IN
       IF Len(data) < i + 1
       THEN result' = Failure("Not enough data") /\ UNCHANGED <<i, info>>
       ELSE LET part1_len == At(data, i)
                part1 == Slice(data, i + 1, i + 1 + part1_len)
                at == i + 1 + part1_len
            IN
            IF Len(data) < i + 1 + part1_len
            THEN result' = Failure("Not enough data") /\ UNCHANGED <<i, info>>
            ELSE IF part1_len >= 5
            THEN IF ~from_utf8(part1).ok
                 THEN result' = Panic /\ UNCHANGED <<i, info>>
                 ELSE IF Len(data) < at + 1
                 THEN result' = Failure("Not enough data") /\ UNCHANGED <<i, info>>
                 ELSE LET part2_len == At(data, at)
                          part2 == Slice(data, at + 1, at + 1 + part2_len)
                      IN
                      IF Len(data) < at + 1 + part2_len
                      THEN result' = Failure("Not enough data") /\ UNCHANGED <<i, info>>
                      ELSE IF Len(part2) # 4
                      THEN result' = Panic /\ UNCHANGED <<i, info>>
                      ELSE /\ result' = Success
                           /\ i' = at + 1
                           /\ info' = [info EXCEPT
                                         !.se_version = Some(from_utf8(part1).val),
                                         !.se_target_id = u32_from_be_bytes(part2),
                                         !.mcu_version = None]
            ELSE IF Len(part1) # 4
            THEN result' = Panic /\ UNCHANGED <<i, info>>
            ELSE /\ result' = Success
                 /\ i' = at
                 /\ info' = [info EXCEPT
                               !.se_version = None,
                               !.se_target_id = u32_from_be_bytes(part1),
                               !.mcu_version = None]
    /\ UNCHANGED <<exchanged, answer, dev>>

\* mutant: the MCU field is read without the two tests of the length
DecodeApplication_Unchecked ==
    /\ UNCHANGED <<relayVars, installed_apps, apps, served, clean, opsVars>>
    /\ pc = "application"
    /\ pc' = "done"
    /\ LET data == answer.data IN
       IF Len(data) < i + 1 \/ Len(data) < i + 1 + At(data, i)
       THEN result' = Panic /\ UNCHANGED <<i, info>>
       ELSE LET mcu == Slice(data, i + 1, i + 1 + At(data, i)) IN
            IF mcu = <<>> \/ ~from_utf8(strip_nul(mcu)).ok
            THEN result' = Panic /\ UNCHANGED <<i, info>>
            ELSE /\ result' = Success
                 /\ i' = i + 1
                 /\ info' = [info EXCEPT
                               !.se_version = Some(info.version),
                               !.se_target_id = info.target_id,
                               !.mcu_version = Some(from_utf8(strip_nul(mcu)).val)]
    /\ UNCHANGED <<exchanged, answer, dev>>

\* the branch of a device that runs an application
DecodeApplication ==
    /\ UNCHANGED <<relayVars, installed_apps, apps, served, clean, opsVars>>
    /\ pc = "application"
    /\ pc' = "done"
    /\ LET data == answer.data IN
       IF Len(data) < i + 1
       THEN result' = Failure("Not enough data") /\ UNCHANGED <<i, info>>
       ELSE LET mcu_len == At(data, i)
                mcu == Slice(data, i + 1, i + 1 + mcu_len)
            IN
            IF Len(data) < i + 1 + mcu_len
            THEN result' = Failure("Not enough data") /\ UNCHANGED <<i, info>>
            ELSE IF mcu = <<>>
            THEN result' = Panic /\ UNCHANGED <<i, info>>
            ELSE IF ~from_utf8(strip_nul(mcu)).ok
            THEN result' = Panic /\ UNCHANGED <<i, info>>
            ELSE /\ result' = Success
                 /\ i' = i + 1
                 /\ info' = [info EXCEPT
                               !.se_version = Some(info.version),
                               !.se_target_id = info.target_id,
                               !.mcu_version = Some(from_utf8(strip_nul(mcu)).val)]
    /\ UNCHANGED <<exchanged, answer, dev>>

InitIdentity ==
    /\ pc = "version"
    /\ msg = NoMessage
    /\ bulk_i = 0
    /\ received = <<>>
    /\ exchanged = <<>>
    /\ sent = <<>>
    /\ answer = TransportError
    /\ result = Running
    /\ mark = [exch |-> 0, sent |-> 0]
    /\ i = 0
    /\ installed_apps = <<>>
    /\ apps = <<>>
    /\ served = 0
    /\ clean = TRUE
    /\ info = NoInfo
    /\ dev \in Devices
    /\ NoOperation

NextIdentity ==
    \/ GetVersion
    \/ DecodeHead
    \/ DecodeBootloader
    \/ DecodeApplication

SpecIdentity == InitIdentity /\ [][NextIdentity]_vars

----------------------------------------------------------------------------
(* The operations: install_bitcoin_app, update_bitcoin_app, genuine_check  *)
(* (lib.rs) and install_app (ledger.rs). The listing and the identity      *)
(* query they call run by the actions above; a request to the catalog, and *)
(* the relay loop as a whole, is one step with any of its outcomes.        *)

OpOk == Outcome("Ok", "")
AlreadyInstalled == Outcome("AlreadyInstalled", "")
NotInstalled == Outcome("NotInstalled", "")
AppNotFound == Outcome("AppNotFound", "")
AlreadyLatest == Outcome("AlreadyLatest", "")
\* InstallErr::AnyErr(e), UpdateErr::AnyErr(e), or the Err(e) of genuine_check
AnyErr(e) == Outcome("Any", e)
OpPanic == Outcome("Panic", "")
\* the install_app of the GUI returns nothing: the last message it displays
Returned(m) == Outcome("Returned", m)
\* Err(()) of get_version_info
UnitErr == Outcome("Err", "")

Operations ==
    [name : {"install_bitcoin_app", "update_bitcoin_app", "install_app"},
     is_testnet : BOOLEAN]
        \cup {[name |-> n, is_testnet |-> FALSE] :
                n \in {"genuine_check", "get_version_info"}}

\* str::to_lowercase, on ASCII
to_lowercase(b) ==
    [k \in 1..Len(b) |-> IF b[k] \in 65..90 THEN b[k] + 32 ELSE b[k]]
\* "bitcoin test" / "bitcoin"
lowercase_app_name(is_testnet) ==
    IF is_testnet THEN <<98, 105, 116, 99, 111, 105, 110, 32, 116, 101, 115, 116>>
    ELSE <<98, 105, 116, 99, 111, 105, 110>>

\* mutant: any application on the device is taken for the one looked for
FindApp_AnyName(l, is_testnet) == IF l = <<>> THEN None ELSE Some(l[1])

\* .into_iter().find(|app| app.name.to_lowercase() == lowercase_app_name)
FindApp(l, is_testnet) ==
    LET hits == {k \in 1..Len(l) :
                    to_lowercase(l[k].name) = lowercase_app_name(is_testnet)}
    IN IF hits = {} THEN None
       ELSE Some(l[CHOOSE k \in hits : \A h \in hits : k <= h])

\* The catalog side.
CatalogRecords ==
    {BitcoinAppInfo(NameBitcoin, "2.1.0", "bitcoin/2.1.0"),
     BitcoinAppInfo(NameBitcoin, "2.2.0", "bitcoin/2.2.0"),
     BitcoinAppInfo(NameBitcoinTest, "2.1.0", "bitcoin_testnet/2.1.0"),
     BitcoinAppInfo(NameBitcoinTest, "2.2.0", "bitcoin_testnet/2.2.0")}
\* answers of apps/by-target: an array of records, of no, one or both
\* variants, of one or two versions
TargetAnswers ==
    {<<>>}
        \cup {<<r>> : r \in CatalogRecords}
        \cup {<<BitcoinAppInfo(NameBitcoin, "2.1.0", "bitcoin/2.1.0"),
                BitcoinAppInfo(NameBitcoin, "2.2.0", "bitcoin/2.2.0")>>,
              <<BitcoinAppInfo(NameBitcoinTest, "2.2.0", "bitcoin_testnet/2.2.0"),
                BitcoinAppInfo(NameBitcoin, "2.2.0", "bitcoin/2.2.0")>>,
              <<BitcoinAppInfo(NameBitcoin, "2.1.0", "bitcoin/2.1.0"),
                BitcoinAppInfo(NameBitcoinTest, "2.2.0", "bitcoin_testnet/2.2.0")>>}
\* answers of apps/hash for one hash: an empty array, a null or a record
HashAnswers == {<<>>, <<None>>} \cup {<<Some(r)>> : r \in CatalogRecords}
Persos == {"perso_11", "perso_10"}
\* what query_via_websocket returns: Ok(()), or the error of the connection,
\* of the channel, of the device or of the remote
RelayResults ==
    {Success, Failure("connect"), Failure("socket read"), Failure("transport"),
     Failure("Got an 'error' query on the ws.")}

\* mutant: the last record of the answer, whatever its name
bitcoin_latest_app_AnyName(answers, is_testnet) ==
    IF answers = <<>> THEN None ELSE Some(answers[Len(answers)])


\* get_latest_apps and bitcoin_latest_app: the last record of the answer that
\* has the name of the variant
bitcoin_latest_app(answers, is_testnet) ==
    LET hits == {k \in 1..Len(answers) :
                    to_lowercase(answers[k].version_name) = lowercase_app_name(is_testnet)}
    IN IF hits = {} THEN None
       ELSE Some(answers[CHOOSE k \in hits : \A h \in hits : k >= h])
\* bitcoin_app of the GUI: the first record that has the name of the variant
bitcoin_app(answers, is_testnet) == FindApp([k \in 1..Len(answers) |->
                                        [name |-> answers[k].version_name,
                                         rec |-> answers[k]]], is_testnet)

\* an operation returns
Finish(o) ==
    /\ pc' = "done"
    /\ ret' = "none"
    /\ outcome' = o
\* the `?` on a call that failed, and a panic inside it
Propagate(r) == Finish(IF r.kind = "Panic" THEN OpPanic ELSE AnyErr(r.err))
\* the operation calls DeviceInfo::new
CallDeviceInfo ==
    /\ pc' = "version"
    /\ ret' = "DeviceInfo::new"
    /\ result' = Running
    /\ UNCHANGED outcome

\* mutant: install goes on when the application is there
AppInstalled_NoCheck ==
    /\ UNCHANGED <<relayVars, listVars, identVars, exchanged, answer>>
    /\ pc = "done"
    /\ ret = "bitcoin_app_installed"
    /\ IF result # Success
       THEN Propagate(result) /\ UNCHANGED <<result, app>>
       ELSE LET found == FindApp(installed_apps, op.is_testnet) IN
            IF op.name = "install_bitcoin_app"
            THEN CallDeviceInfo /\ UNCHANGED app
            ELSE IF ~found.some
            THEN Finish(NotInstalled) /\ UNCHANGED <<result, app>>
            ELSE /\ app' = found
                 /\ pc' = "by_hash"
                 /\ ret' = "none"
                 /\ UNCHANGED <<result, outcome>>
    /\ UNCHANGED <<guiVars, op, requests, catalog, installed_app, latest_app, firmware_info, url>>

\* bitcoin_app_installed returned: install stops if the application is
\* there, update stops if it is not
AppInstalled ==
    /\ UNCHANGED <<relayVars, listVars, identVars, exchanged, answer>>
    /\ pc = "done"
    /\ ret = "bitcoin_app_installed"
    /\ IF result # Success
       THEN Propagate(result) /\ UNCHANGED <<result, app>>
       ELSE LET found == FindApp(installed_apps, op.is_testnet) IN
            IF op.name = "install_bitcoin_app"
            THEN IF found.some
                 THEN Finish(AlreadyInstalled) /\ UNCHANGED <<result, app>>
                 ELSE CallDeviceInfo /\ UNCHANGED app
            ELSE IF ~found.some
            THEN Finish(NotInstalled) /\ UNCHANGED <<result, app>>
            ELSE /\ app' = found
                 /\ pc' = "by_hash"
                 /\ ret' = "none"
                 /\ UNCHANGED <<result, outcome>>
    /\ UNCHANGED <<guiVars, op, requests, catalog, installed_app, latest_app, firmware_info, url>>

\* bitcoin_apps_by_hashes(vec![app.hash]) and the first element of its answer
AppsByHashes ==
    /\ UNCHANGED <<relayVars, listVars, identVars, exchanged, answer>>
    /\ pc = "by_hash"
    /\ requests' = Append(requests, "apps/hash")
    /\ \/ /\ catalog' = [catalog EXCEPT !.by_hash = HttpError]
          /\ Finish(AnyErr("http"))
          /\ UNCHANGED <<result, installed_app>>
       \/ \E answers \in HashAnswers :
            /\ catalog' = [catalog EXCEPT !.by_hash = HttpOk(answers)]
            /\ IF answers = <<>>
               THEN Finish(AppNotFound) /\ UNCHANGED <<result, installed_app>>
               ELSE installed_app' = answers[1] /\ CallDeviceInfo
    /\ UNCHANGED <<guiVars, op, app, latest_app, firmware_info, url>>

\* mutant: the operation goes on when the identity query failed
DeviceInfoReturn_Unchecked ==
    /\ UNCHANGED <<relayVars, listVars, identVars, exchanged, answer, result>>
    /\ pc = "done"
    /\ ret = "DeviceInfo::new"
    /\ IF op.name # "get_version_info"
       THEN /\ pc' = IF op.name = "genuine_check" THEN "firmware" ELSE "latest"
            /\ ret' = "none"
            /\ UNCHANGED <<outcome, version_info>>
       ELSE IF actual_device_version = None
       THEN /\ pc' = "list"
            /\ ret' = "check_apps_installed"
            /\ UNCHANGED <<outcome, version_info>>
       ELSE /\ Finish(OpOk)
            /\ version_info' = VersionInfo(None, Some(info.version), None, None)
    /\ UNCHANGED <<actual_device_version, checked, op, requests, catalog, app,
                   installed_app, latest_app, firmware_info, url>>

\* DeviceInfo::new returned
DeviceInfoReturn ==
    /\ UNCHANGED <<relayVars, listVars, identVars, exchanged, answer>>
    /\ pc = "done"
    /\ ret = "DeviceInfo::new"
    /\ IF result # Success
       THEN /\ IF op.name = "install_app" /\ result.kind # "Panic"
               THEN Finish(Returned("Fail to fetch device info!"))
               ELSE IF op.name = "get_version_info" /\ result.kind # "Panic"
               THEN Finish(UnitErr)
               ELSE Propagate(result)
            /\ UNCHANGED <<result, version_info>>
       ELSE IF op.name # "get_version_info"
       THEN /\ pc' = IF op.name = "genuine_check" THEN "firmware" ELSE "latest"
            /\ ret' = "none"
            /\ UNCHANGED <<outcome, result, version_info>>
       ELSE IF actual_device_version = None
       THEN /\ pc' = "list"
            /\ ret' = "check_apps_installed"
            /\ result' = Running
            /\ UNCHANGED <<outcome, version_info>>
       ELSE /\ Finish(OpOk)
            /\ version_info' = VersionInfo(None, Some(info.version), None, None)
            /\ UNCHANGED result
    /\ UNCHANGED <<actual_device_version, checked, op, requests, catalog, app,
                   installed_app, latest_app, firmware_info, url>>

\* mutant: the versions are not compared
LatestApp_NoVersionCheck ==
    /\ UNCHANGED <<relayVars, listVars, identVars, exchanged, answer, result>>
    /\ pc = "latest"
    /\ requests' = Append(requests, "apps/by-target")
    /\ \/ /\ catalog' = [catalog EXCEPT !.by_target = HttpError]
          /\ Finish(IF op.name = "install_app"
                    THEN Returned("Error querying info about Bitcoin app")
                    ELSE AnyErr("http"))
          /\ UNCHANGED latest_app
       \/ \E answers \in TargetAnswers :
            /\ catalog' = [catalog EXCEPT !.by_target = HttpOk(answers)]
            /\ LET found == IF op.name = "install_app"
                            THEN (LET f == bitcoin_app(answers, op.is_testnet) IN
                                  IF f.some THEN Some(f.val.rec) ELSE None)
                            ELSE bitcoin_latest_app(answers, op.is_testnet)
               IN
               IF ~found.some
               THEN /\ Finish(IF op.name = "install_app"
                              THEN Returned("Could not get info about Bitcoin app.")
                              ELSE AppNotFound)
                    /\ UNCHANGED latest_app
               ELSE /\ latest_app' = found
                    /\ pc' = "relay"
                    /\ UNCHANGED <<ret, outcome>>
    /\ UNCHANGED <<guiVars, op, app, installed_app, firmware_info, url>>

\* the latest record of the catalog for the device and the variant; update
\* stops if the installed record has its version
LatestApp ==
    /\ UNCHANGED <<relayVars, listVars, identVars, exchanged, answer, result>>
    /\ pc = "latest"
    /\ requests' = Append(requests, "apps/by-target")
    /\ \/ /\ catalog' = [catalog EXCEPT !.by_target = HttpError]
          /\ Finish(IF op.name = "install_app"
                    THEN Returned("Error querying info about Bitcoin app")
                    ELSE AnyErr("http"))
          /\ UNCHANGED latest_app
       \/ \E answers \in TargetAnswers :
            /\ catalog' = [catalog EXCEPT !.by_target = HttpOk(answers)]
            /\ LET found == IF op.name = "install_app"
                            THEN (LET f == bitcoin_app(answers, op.is_testnet) IN
                                  IF f.some THEN Some(f.val.rec) ELSE None)
                            ELSE bitcoin_latest_app(answers, op.is_testnet)
               IN
               IF ~found.some
               THEN /\ Finish(IF op.name = "install_app"
                              THEN Returned("Could not get info about Bitcoin app.")
                              ELSE AppNotFound)
                    /\ UNCHANGED latest_app
               ELSE /\ latest_app' = found
                    /\ IF /\ op.name = "update_bitcoin_app"
                          /\ installed_app.some
                          /\ installed_app.val.version = found.val.version
                       THEN Finish(AlreadyLatest)
                       ELSE pc' = "relay" /\ UNCHANGED <<ret, outcome>>
    /\ UNCHANGED <<guiVars, op, app, installed_app, firmware_info, url>>

\* FirmwareInfo::from_device: two requests, each unwrapped
FirmwareInfoFromDevice ==
    /\ UNCHANGED <<relayVars, listVars, identVars, exchanged, answer, result>>
    /\ pc = "firmware"
    /\ \/ /\ requests' = Append(requests, "get_device_version")
          /\ Finish(OpPanic)
          /\ UNCHANGED firmware_info
       \/ /\ requests' = requests \o <<"get_device_version", "get_firmware_version">>
          /\ \/ Finish(OpPanic) /\ UNCHANGED firmware_info
             \/ \E perso \in Persos :
                  /\ firmware_info' = Some(perso)
                  /\ pc' = "relay"
                  /\ UNCHANGED <<ret, outcome>>
    /\ UNCHANGED <<guiVars, op, catalog, app, installed_app, latest_app, url>>

\* mutant: the channel is opened with the record of the installed application
RelayUrl_Installed ==
    IF op.name = "genuine_check"
    THEN Url("genuine", <<"targetId", "perso">>, info.target_id,
             [NoAppInfo EXCEPT !.perso = firmware_info.val])
    ELSE Url("install",
             <<"targetId", "perso", "deleteKey", "firmware", "firmwareKey", "hash">>,
             info.target_id,
             IF installed_app.some THEN installed_app.val ELSE latest_app.val)

\* the URL of the relay channel: /genuine?targetId&perso, or
\* /install?targetId&perso&deleteKey&firmware&firmwareKey&hash
RelayUrl ==
    IF op.name = "genuine_check"
    THEN Url("genuine", <<"targetId", "perso">>, info.target_id,
             [NoAppInfo EXCEPT !.perso = firmware_info.val])
    ELSE Url("install",
             <<"targetId", "perso", "deleteKey", "firmware", "firmwareKey", "hash">>,
             info.target_id, latest_app.val)

\* query_via_websocket(ledger_api, &url), and what the operation makes of
\* its result
QueryViaWebsocket ==
    /\ UNCHANGED <<relayVars, listVars, identVars, exchanged, answer>>
    /\ pc = "relay"
    /\ requests' = Append(requests, "relay")
    /\ url' = RelayUrl
    /\ \E r \in RelayResults :
        /\ result' = r
        /\ Finish(IF op.name = "install_app"
                  THEN (IF r = Success THEN Returned("Successfully installed the app.")
                        ELSE Returned("Got an error when installing Bitcoin app"))
                  ELSE IF r = Success THEN OpOk ELSE AnyErr(r.err))
    /\ UNCHANGED <<guiVars, op, catalog, app, installed_app, latest_app, firmware_info>>

\* identities of the devices the operations run on: one that runs an
\* application, one in bootloader mode
OpsDevices ==
    {[target |-> <<51, 0, 0, 4>>, version |-> <<50, 46, 49>>, flags |-> <<>>,
      tail |-> << <<50, 46, 49, 0>> >>],
     [target |-> <<1, 0, 0, 1>>, version |-> <<50, 46, 49>>, flags |-> <<>>,
      tail |-> << <<49, 46, 54, 46, 48>>, <<50, 46, 49, 0>> >>]}

InitOps ==
    /\ op \in Operations
    /\ pc = IF op.name \in {"install_bitcoin_app", "update_bitcoin_app"}
            THEN "list" ELSE "version"
    /\ ret = IF op.name \in {"install_bitcoin_app", "update_bitcoin_app"}
             THEN "bitcoin_app_installed" ELSE "DeviceInfo::new"
    /\ msg = NoMessage
    /\ bulk_i = 0
    /\ received = <<>>
    /\ exchanged = <<>>
    /\ sent = <<>>
    /\ answer = TransportError
    /\ result = Running
    /\ mark = [exch |-> 0, sent |-> 0]
    /\ i = 0
    /\ installed_apps = <<>>
    /\ apps \in AppLists \cup CasedInventories
    /\ served = 0
    /\ clean = TRUE
    /\ info = NoInfo
    /\ dev \in OpsDevices
    /\ actual_device_version \in
            IF op.name = "get_version_info" THEN {None, Some(<<50, 46, 49>>)}
            ELSE {None}
    /\ checked = NotChecked
    /\ version_info = NoVersionInfo
    /\ requests = <<>>
    /\ catalog = NoAnswers
    /\ app = None
    /\ installed_app = None
    /\ latest_app = None
    /\ firmware_info = None
    /\ url = NoUrl
    /\ outcome = OpRunning

\* check_apps_installed returns to get_version_info:
\* if app.name == "Bitcoin" { mainnet = true }
\* if app.name == "Bitcoin Test" { testnet = true }
CheckAppsInstalled ==
    /\ UNCHANGED <<relayVars, listVars, identVars, exchanged, answer, result>>
    /\ pc = "done"
    /\ ret = "check_apps_installed"
    /\ IF result.kind = "Panic"
       THEN Finish(OpPanic) /\ UNCHANGED <<checked, version_info>>
       ELSE IF result # Success
       THEN /\ Finish(OpOk)
            /\ version_info' = VersionInfo(None, Some(info.version), None, None)
            /\ UNCHANGED checked
       ELSE /\ checked' =
                [mainnet |-> \E k \in 1..Len(installed_apps) :
                                installed_apps[k].name = NameBitcoin,
                 testnet |-> \E k \in 1..Len(installed_apps) :
                                installed_apps[k].name = NameBitcoinTest]
            /\ pc' = "main_version"
            /\ ret' = "none"
            /\ UNCHANGED <<outcome, version_info>>
    /\ UNCHANGED <<actual_device_version, op, requests, catalog, app, installed_app,
                   latest_app, firmware_info, url>>

\* Model::NanoS, NanoSP, NanoX, Unknown of the first chunk of the path
ModelOf(chunk) ==
    IF chunk = <<"nanos">> THEN "NanoS"
    ELSE IF chunk = <<"nanos+">> THEN "NanoSP"
    ELSE IF chunk = <<"nanox">> THEN "NanoX"
    ELSE "Unknown"
\* version.replace("app_", "")
StripApp(chunk) == SelectSeq(chunk, LAMBDA piece : piece # "app_")
\* get_app_version, once the catalog answered: (model, version), or
\* (Model::Unknown, Version::None) as get_version_info reads its Err
get_app_version(found) ==
    IF ~found.some THEN [model |-> "Unknown", version |-> VersionNone]
    ELSE LET chunks == found.val.rec.firmware IN
         [model |-> ModelOf(Head(chunks)),
          version |-> VersionInstalled(StripApp(Last(chunks)))]
\* let model = match (&main_model, &test_model) { (Model::Unknown, _) => test_model, _ => main_model };
DeviceModel(main_model, test_model) ==
    IF main_model = "Unknown" THEN test_model ELSE main_model

\* the two `if main_installed { get_app_version(&info, true) }` and
\* `if test_installed { get_app_version(&info, true) }` of get_version_info,
\* one after the other, then the VersionInfo it returns
GetAppVersion ==
    /\ UNCHANGED <<relayVars, listVars, identVars, exchanged, answer, result>>
    /\ pc \in {"main_version", "test_version"}
    /\ LET mainnet == pc = "main_version"
           installed == IF mainnet THEN checked.mainnet ELSE checked.testnet
           Set(mv) ==
               IF mainnet
               THEN /\ version_info' =
                          VersionInfo(Some(mv.model), None, Some(mv.version), None)
                    /\ pc' = "test_version"
                    /\ UNCHANGED <<ret, outcome>>
               ELSE /\ version_info' =
                          VersionInfo(Some(DeviceModel(version_info.device_model.val,
                                                       mv.model)),
                                      Some(info.version),
                                      version_info.mainnet_version,
                                      Some(mv.version))
                    /\ Finish(OpOk)
       IN
       IF ~installed
       THEN /\ Set([model |-> "Unknown", version |-> VersionNotInstalled])
            /\ UNCHANGED <<requests, catalog>>
       ELSE /\ requests' = Append(requests, "apps/by-target")
            /\ \/ /\ catalog' = [catalog EXCEPT !.by_target = HttpError]
                  /\ Set([model |-> "Unknown", version |-> VersionNone])
               \/ \E answers \in TargetAnswers :
                    /\ catalog' = [catalog EXCEPT !.by_target = HttpOk(answers)]
                    /\ Set(get_app_version(bitcoin_app(answers, TRUE)))
    /\ UNCHANGED <<actual_device_version, checked, op, app, installed_app, latest_app,
                   firmware_info, url>>

NextOps ==
    \/ ListApps
    \/ BatchHead
    \/ ListEntry
    \/ ListContinue
    \/ GetVersion
    \/ DecodeHead
    \/ DecodeBootloader
    \/ DecodeApplication
    \/ AppInstalled
    \/ AppsByHashes
    \/ DeviceInfoReturn
    \/ LatestApp
    \/ FirmwareInfoFromDevice
    \/ QueryViaWebsocket
    \/ CheckAppsInstalled
    \/ GetAppVersion

SpecOps == InitOps /\ [][NextOps]_vars

\* every operation: the relay loop, the listing and the identity query on
\* their own, and the operations that call them
InitAll == InitRelay \/ InitList \/ InitIdentity \/ InitOps

NextAll ==
    \/ SocketRead
    \/ SocketReadFail
    \/ ExchangeReturn
    \/ BulkNext
    \/ BulkExchangeReturn
    \/ BulkReply
    \/ ListApps
    \/ BatchHead
    \/ ListEntry
    \/ ListContinue
    \/ GetVersion
    \/ DecodeHead
    \/ DecodeBootloader
    \/ DecodeApplication
    \/ AppInstalled
    \/ AppsByHashes
    \/ DeviceInfoReturn
    \/ LatestApp
    \/ FirmwareInfoFromDevice
    \/ QueryViaWebsocket
    \/ CheckAppsInstalled
    \/ GetAppVersion

SpecAll == InitAll /\ [][NextAll]_vars

----------------------------------------------------------------------------
(* Properties of the relay loop. *)

\* the k-th message read is a text message carrying the instruction q
IsInstr(h, q) == h.type = "Text" /\ h.valid /\ h.query = q
\* an instruction the loop answers
Replyable(h) == IsInstr(h, "exchange") \/ IsInstr(h, "bulk")
\* this step read a message
ReadStep == pc = "read" /\ Len(received') = Len(received) + 1
\* the loop is inside a bulk instruction
InBulk == pc \in {"bulk", "bulk_exchange"}
IsBulkList(j) == j.query = "bulk" /\ j.data.tag = "list"
AllDecode(l) ==
    \A k \in 1..Len(l) : l[k] = <<>> \/ deser_apdu_command(l[k]).ok
HasMalformed(l) ==
    \E k \in 1..Len(l) : l[k] # <<>> /\ ~deser_apdu_command(l[k]).ok
\* the commands of the non-empty entries of l, in the order of l
CommandsOf(l) ==
    LET ne == SelectSeq(l, LAMBDA e : e # <<>>) IN
    [k \in 1..Len(ne) |-> deser_apdu_command(ne[k]).val]
\* the commands handed to the device since the last message was read
SinceRead == SubSeq(exchanged, mark.exch + 1, Len(exchanged))
\* how a send ends: the loop goes round, or the channel failed
AfterSend ==
    \/ pc' = "read" /\ result' = Running
    \/ pc' = "done" /\ result' = Failure("socket send")

\* C1. An `exchange` instruction whose command decodes hands that command to
\* the device once and sends nothing yet; when the device answers, exactly one
\* reply is sent, with the nonce of the instruction, response "success" iff
\* the status is 0x9000 and "error" otherwise, and data the hex of the payload
\* in both cases; no status ends the loop, it goes back to reading (only a
\* failure of the channel itself ends it).
C1_Step ==
    /\ (/\ ReadStep
        /\ IsInstr(Last(received'), "exchange")
        /\ msg'.data.tag = "string"
        /\ deser_apdu_command(msg'.data.str).ok)
        => /\ pc' = "exchange"
           /\ msg'.nonce = Last(received').nonce
           /\ exchanged' =
                Append(exchanged, deser_apdu_command(msg'.data.str).val)
           /\ sent' = sent
    /\ (pc = "exchange" /\ pc' # "exchange")
        => /\ exchanged' = exchanged
           /\ IF answer'.ok
              THEN /\ Len(sent') = Len(sent) + 1
                   /\ Front(sent') = sent
                   /\ Last(sent').nonce = msg.nonce
                   /\ Last(sent').response =
                        (IF answer'.retcode = StatusOK THEN "success" ELSE "error")
                   /\ Len(Last(sent').data) = 2 * Len(answer'.data)
                   /\ hex_decode(Last(sent').data).ok
                   /\ hex_decode(Last(sent').data).val = answer'.data
                   /\ AfterSend
              ELSE sent' = sent /\ pc' = "done" /\ result' = Failure("transport")
C1_ExchangeReply == [][C1_Step]_vars
\* an exchange the device refused was answered "error" with the payload, and
\* the loop reads on
C1_Witness ==
    /\ pc = "read"
    /\ Len(received) = 1
    /\ IsInstr(received[1], "exchange")
    /\ Len(exchanged) = 1
    /\ Len(sent) = 1
    /\ answer.retcode = StatusRefused
    /\ sent[1].response = "error"
    /\ sent[1].data = <<"a", "b", "0", "1">>
    /\ sent[1].nonce = received[1].nonce

\* C2. When the remote sent an `exchange` instruction and then `success`:
\* one reply was sent before the loop ended (none after), one command was
\* handed to the device, and the loop returned success.
C2_ExchangeThenSuccess ==
    /\ (Len(received) = 1 /\ IsInstr(received[1], "exchange") /\ pc = "read")
        => Len(sent) = 1 /\ Len(exchanged) = 1 /\ result = Running
    /\ (/\ Len(received) = 2
        /\ IsInstr(received[1], "exchange")
        /\ IsInstr(received[2], "success"))
        => /\ pc = "done"
           /\ result = Success
           /\ Len(sent) = 1
           /\ sent[1].nonce = received[1].nonce
           /\ Len(exchanged) = 1
C2_Witness ==
    /\ Len(received) = 2
    /\ IsInstr(received[1], "exchange")
    /\ IsInstr(received[2], "success")
    /\ pc = "done"
    /\ result = Success
    /\ Len(sent) = 1

\* C3. Inside a `bulk` instruction whose entries all decode: no reply is sent
\* while the list is being run, the commands handed to the device so far are
\* those of the non-empty entries passed so far, each once and in list order;
\* the instruction can only end by the reply {nonce, "success", ""} sent once
\* after the last entry (whatever statuses the device answered), or by a
\* failure of the transport.
C3_Inv ==
    (InBulk /\ AllDecode(msg.data.list))
        => /\ Len(sent) = mark.sent
           /\ bulk_i \in 1..(Len(msg.data.list) + 1)
           /\ SinceRead =
                CommandsOf(SubSeq(msg.data.list, 1,
                                  IF pc = "bulk" THEN bulk_i - 1 ELSE bulk_i))
C3_Step ==
    (InBulk /\ AllDecode(msg.data.list) /\ (sent' # sent \/ pc' \notin {"bulk", "bulk_exchange"}))
        => \/ /\ pc = "bulk_exchange"
              /\ pc' = "done"
              /\ result' = Failure("transport")
              /\ sent' = sent
           \/ /\ pc = "bulk"
              /\ bulk_i = Len(msg.data.list) + 1
              /\ exchanged' = exchanged
              /\ SinceRead = CommandsOf(msg.data.list)
              /\ sent' = Append(sent, [nonce |-> msg.nonce,
                                       response |-> "success", data |-> <<>>])
              /\ msg.nonce = Last(received).nonce
              /\ AfterSend
C3_BulkReply == []C3_Inv /\ [][C3_Step]_vars
\* a bulk of two commands was run in order and answered once
C3_Witness ==
    /\ pc = "read"
    /\ Len(received) = 1
    /\ IsInstr(received[1], "bulk")
    /\ exchanged = <<deser_apdu_command(CmdB).val, deser_apdu_command(CmdA).val>>
    /\ sent = <<[nonce |-> received[1].nonce, response |-> "success", data |-> <<>>]>>

\* C4. A `bulk` instruction with an entry that does not decode never gets a
\* reply and never lets the loop go back to reading: it can only end in an
\* error.
C4_Step ==
    (IsBulkList(msg) /\ HasMalformed(msg.data.list))
        => /\ sent' = sent
           /\ pc' \in {"bulk", "bulk_exchange", "done"}
           /\ pc' = "done" => result'.kind = "Err"
C4_MalformedBulkAborts == [][C4_Step]_vars
\* a bulk with a malformed entry after a valid one ended in the decoding error
C4_Witness ==
    /\ pc = "done"
    /\ IsBulkList(msg)
    /\ msg.data.list = <<CmdA, BadLen>>
    /\ result = Failure("Invalid command")
    /\ sent = <<>>

\* C5. A `bulk` instruction with an entry that does not decode hands none of
\* its commands to the device.
C5_NoPartialApplication ==
    (IsBulkList(msg) /\ HasMalformed(msg.data.list)) => Len(exchanged) = mark.exch

\* C6. `success` ends the loop with a success and `error` ends it with an
\* error that carries the message of the remote; neither sends a reply nor
\* hands a command to the device.
C6_Termination ==
    /\ (received # <<>> /\ IsInstr(Last(received), "success"))
        => /\ pc = "done"
           /\ result = Success
           /\ Len(sent) = mark.sent
           /\ Len(exchanged) = mark.exch
    /\ (received # <<>> /\ IsInstr(Last(received), "error"))
        => /\ pc = "done"
           /\ result.kind = "Err"
           /\ msg.query = "error"
           /\ result.text = msg
           /\ Len(sent) = mark.sent
           /\ Len(exchanged) = mark.exch
\* after an answered exchange, an error with a detail ended the loop
C6_Witness ==
    /\ Len(received) = 2
    /\ IsInstr(received[2], "error")
    /\ pc = "done"
    /\ result.kind = "Err"
    /\ result.text.data = DataStr(Detail)
    /\ Len(sent) = 1

\* C7. Reading a `warning` sends nothing, hands nothing to the device and
\* leaves the loop running, back at reading the next message.
C7_Step ==
    (ReadStep /\ IsInstr(Last(received'), "warning"))
        => /\ pc' = "read"
           /\ result' = Running
           /\ sent' = sent
           /\ exchanged' = exchanged
C7_WarningContinues == [][C7_Step]_vars
\* two warnings in a row, and the loop still reads
C7_Witness ==
    /\ Len(received) = 2
    /\ IsInstr(received[1], "warning")
    /\ IsInstr(received[2], "warning")
    /\ pc = "read"
    /\ result = Running
    /\ sent = <<>>
    /\ exchanged = <<>>

\* C8. A text message whose query is none of exchange, bulk, success, error,
\* warning, and a message that is not text, end the loop with an error; no
\* reply is sent and no command is handed to the device for it.
KnownQueries == {"exchange", "bulk", "success", "error", "warning"}
C8_Unsupported ==
    (/\ received # <<>>
     /\ \/ Last(received).type # "Text"
        \/ Last(received).valid /\ Last(received).query \notin KnownQueries)
        => /\ pc = "done"
           /\ result.kind = "Err"
           /\ result.err = (IF Last(received).type # "Text"
                            THEN "Got an unsupported message type on the ws."
                            ELSE "Got an unsupported query on the ws.")
           /\ Len(sent) = mark.sent
           /\ Len(exchanged) = mark.exch
\* after an answered exchange, a query in another case ended the loop
C8_Witness ==
    /\ Len(received) = 2
    /\ IsInstr(received[1], "exchange")
    /\ IsInstr(received[2], "Success")
    /\ pc = "done"
    /\ result.kind = "Err"
    /\ Len(sent) = 1
    /\ Len(exchanged) = 1

\* C9. At most one instruction awaits its reply; the loop reads only when
\* every exchange or bulk instruction read so far has its reply; there are
\* never more replies than such instructions; the k-th reply carries the
\* nonce of the k-th such instruction.
C9_RequestReply ==
    LET asked == SelectSeq(received, Replyable) IN
    /\ Len(sent) <= Len(asked)
    /\ Len(asked) - Len(sent) <= 1
    /\ pc = "read" => Len(sent) = Len(asked)
    /\ pc \in {"exchange", "bulk", "bulk_exchange"}
        => /\ Len(asked) = Len(sent) + 1
           /\ Replyable(Last(received))
           /\ msg.nonce = Last(received).nonce
    /\ \A k \in 1..Len(sent) : sent[k].nonce = asked[k].nonce
\* an exchange and a bulk, each answered with its own nonce
C9_Witness ==
    /\ pc = "read"
    /\ Len(received) = 2
    /\ IsInstr(received[1], "exchange")
    /\ IsInstr(received[2], "bulk")
    /\ received[1].nonce # received[2].nonce
    /\ Len(sent) = 2
    /\ sent[1].nonce = received[1].nonce
    /\ sent[2].nonce = received[2].nonce

----------------------------------------------------------------------------
(* Properties of the listing. *)

\* C10. When every batch the device sent was well formed (the marker, then
\* whole entries, wherever the device cut the list), the entries decoded so
\* far are the entries sent so far, in order and field by field; the listing
\* does not fail, and when it returns (after the empty payload) it returns
\* exactly the entries the device sent.
C10_RoundTrip ==
    clean =>
        /\ Len(installed_apps) <= served
        /\ installed_apps = SubSeq(apps, 1, Len(installed_apps))
        /\ pc = "entry" =>
              ((i >= Len(answer.data)) <=> (Len(installed_apps) = served))
        /\ pc = "done" =>
              \/ result = Success /\ installed_apps = SubSeq(apps, 1, served)
              \/ result = Failure("transport")
\* two different entries, sent in two batches of one, came back as sent
C10_Witness ==
    /\ pc = "done"
    /\ result = Success
    /\ clean
    /\ Len(apps) = 2
    /\ apps[1] # apps[2]
    /\ served = 2
    /\ Len(exchanged) = 3
    /\ installed_apps = apps

\* the pass of the entry loop that is about to run has a whole fixed header
HeaderPresent == Len(answer.data) >= i + EntryHeaderLen
\* the name length of the entry at offset i, and the offset of its name
NameLenAt == At(answer.data, i + EntryHeaderLen - 1)
NamePresent == Len(answer.data) >= i + EntryHeaderLen + NameLenAt
\* a pass of the entry loop is about to run
AtEntry == pc = "entry" /\ i < Len(answer.data)

\* C11. The commands handed to the device are the list-apps command, once and
\* first, followed by continuation commands only. A command is sent either
\* as the first step (the list-apps command) or from a non-empty batch whose
\* entries were all decoded (the continuation command, one per such batch,
\* the marker-only batch included), never while entries of the batch remain;
\* an empty payload ends the listing with what was decoded and nothing is
\* sent after it.
C11_Inv ==
    /\ (pc = "list") <=> (exchanged = <<>>)
    /\ exchanged # <<>> => exchanged[1] = LIST_APPS_COMMAND
    /\ \A k \in 2..Len(exchanged) : exchanged[k] = CONTINUE_LIST_APPS_COMMAND
    /\ (pc = "done" /\ result = Success) => answer.ok /\ answer.data = <<>>
C11_Step ==
    /\ exchanged' # exchanged
        => \/ /\ pc = "list"
              /\ exchanged' = <<LIST_APPS_COMMAND>>
           \/ /\ pc = "entry"
              /\ answer.data # <<>>
              /\ i >= Len(answer.data)
              /\ exchanged' = Append(exchanged, CONTINUE_LIST_APPS_COMMAND)
    /\ (pc = "entry" /\ i >= Len(answer.data))
        => /\ exchanged' = Append(exchanged, CONTINUE_LIST_APPS_COMMAND)
           /\ pc' \in {"batch", "done"}
    /\ AtEntry => exchanged' = exchanged
    /\ (pc = "batch" /\ answer.data = <<>>)
        => pc' = "done" /\ result' = Success /\ exchanged' = exchanged
    /\ pc = "done" => exchanged' = exchanged
C11_Pagination == []C11_Inv /\ [][C11_Step]_vars
\* one entry and a marker-only batch, then the empty payload: three commands
C11_Witness ==
    /\ pc = "done"
    /\ result = Success
    /\ clean
    /\ served = 1
    /\ Len(installed_apps) = 1
    /\ exchanged = <<LIST_APPS_COMMAND, CONTINUE_LIST_APPS_COMMAND,
                     CONTINUE_LIST_APPS_COMMAND>>

\* C12. When the listing ended on a non-empty batch that does not begin with
\* the marker byte, it returned an error value.
C12_MarkerError ==
    (/\ pc = "done"
     /\ answer.ok
     /\ answer.data # <<>>
     /\ At(answer.data, 0) # Marker)
        => result.kind = "Err"

\* C13. A pass of the entry loop over an entry that is wholly in the batch
\* and whose declared length is not 70 + its name length ends the listing
\* with the error "Invalid listApps length data.": no entry is added, no
\* list is returned and no command is sent.
C13_Step ==
    (AtEntry /\ HeaderPresent /\ NamePresent
        /\ At(answer.data, i) # EntryHeaderLen + NameLenAt)
        => /\ pc' = "done"
           /\ result' = Failure("Invalid listApps length data.")
           /\ installed_apps' = installed_apps
           /\ exchanged' = exchanged
C13_InvalidEntryLength == [][C13_Step]_vars
\* the second entry of the inventory came with a wrong declared length
C13_Witness ==
    /\ pc = "done"
    /\ result = Failure("Invalid listApps length data.")
    /\ HeaderPresent /\ NamePresent
    /\ At(answer.data, i) # EntryHeaderLen + NameLenAt
    /\ Len(installed_apps) = 1
    /\ Len(exchanged) = 2

\* C14. A pass of the entry loop with fewer than 70 bytes left at its offset,
\* or fewer bytes than the name length after the fixed header, ends the
\* listing with the error "Not enough data", whatever the declared length
\* of the entry; no pass reads an offset outside the batch.
C14_Inv ==
    pc = "entry" => EntryReads(answer.data, i) \subseteq 0..(Len(answer.data) - 1)
C14_Step ==
    (AtEntry /\ (~HeaderPresent \/ ~NamePresent))
        => /\ pc' = "done"
           /\ result' = Failure("Not enough data")
           /\ installed_apps' = installed_apps
           /\ exchanged' = exchanged
C14_Truncated == []C14_Inv /\ [][C14_Step]_vars
\* an entry with a wrong declared length and a name cut short
C14_Witness ==
    /\ pc = "done"
    /\ result = Failure("Not enough data")
    /\ HeaderPresent
    /\ ~NamePresent
    /\ At(answer.data, i) # EntryHeaderLen + NameLenAt
\* a batch cut inside the fixed header of an entry
C14_WitnessHeader ==
    /\ pc = "done"
    /\ result = Failure("Not enough data")
    /\ i < Len(answer.data)
    /\ ~HeaderPresent

----------------------------------------------------------------------------
(* Properties of the identity query. *)

\* the device answered OK with its whole identity
Whole ==
    answer.ok /\ answer.retcode = StatusOK /\ answer.data = EncodeIdentity(dev)
\* the device answered OK with its identity cut short
CutShort ==
    /\ answer.ok
    /\ answer.retcode = StatusOK
    /\ Len(answer.data) < Len(EncodeIdentity(dev))
\* the query returned a DeviceInfo
Decoded == pc = "done" /\ result = Success
\* the four bytes of a target id as a u32
TargetOf(b) == U32(b[1] * 256 + b[2], b[3] * 256 + b[4])
\* the high nibble of the target id is not 3
BootTarget(b) == b[1] \div 16 # 3
IsText(b) == \A k \in 1..Len(b) : b[k] < 128
\* an identity in application mode: texts are UTF-8, the MCU field is there
ValidApplication(v) ==
    /\ ~BootTarget(v.target)
    /\ IsText(v.version)
    /\ v.tail[1] # <<>>
    /\ IsText(v.tail[1])
\* an identity in bootloader mode with a version and a target id, or with
\* a target id only
ValidBootloader(v) ==
    /\ BootTarget(v.target)
    /\ IsText(v.version)
    /\ \/ Len(v.tail) = 2 /\ Len(v.tail[1]) >= 5 /\ IsText(v.tail[1]) /\ Len(v.tail[2]) = 4
       \/ Len(v.tail) = 1 /\ Len(v.tail[1]) = 4
\* the offsets at which a field of the identity ends
Boundaries(v) ==
    LET head == {0, 4, 5, 5 + Len(v.version), 6 + Len(v.version)}
        base == 6 + Len(v.version) + Len(v.flags)
        t1 == base + 1 + Len(v.tail[1])
    IN head \cup {base, base + 1, t1}
            \cup (IF Len(v.tail) >= 2 THEN {t1 + 1, t1 + 1 + Len(v.tail[2])} ELSE {})

\* C15. Once the head of the identity is decoded, is_bootloader tells
\* whether the high nibble of the target id differs from 3; the branch that
\* decodes the rest is the bootloader branch exactly when the flag is set,
\* and the DeviceInfo returned has the shape of that branch.
C15_IsBootloader ==
    (pc \in {"bootloader", "application"} \/ Decoded)
        => /\ info.target_id = TargetOf(answer.data)
           /\ info.is_bootloader = BootTarget(answer.data)
           /\ pc = "bootloader" => info.is_bootloader
           /\ pc = "application" => ~info.is_bootloader
           /\ Decoded =>
                IF info.is_bootloader
                THEN info.mcu_version = None
                ELSE /\ info.mcu_version.some
                     /\ info.se_version = Some(info.version)
                     /\ info.se_target_id = info.target_id
\* 0xb3000004 differs from an application target id by one bit of the nibble
C15_Witness ==
    /\ Decoded
    /\ dev.target = <<179, 0, 0, 4>>
    /\ info.is_bootloader
    /\ info.target_id = U32(45824, 4)
    /\ info.se_version.some

\* C16. The whole identity of a device in application mode decodes to a
\* DeviceInfo with the version as sent, the MCU version as sent less one
\* trailing NUL if there is one, the version again as secure-element
\* version and the target id again as secure-element target id.
C16_ApplicationMode ==
    (pc = "done" /\ Whole /\ ValidApplication(dev))
        => /\ result = Success
           /\ info.target_id = TargetOf(dev.target)
           /\ info.version = dev.version
           /\ info.flags = dev.flags
           /\ info.mcu_version.some
           /\ LET sent_mcu == dev.tail[1]
                  got == info.mcu_version.val
              IN IF Last(sent_mcu) = 0
                 THEN /\ Len(got) = Len(sent_mcu) - 1
                      /\ got = SubSeq(sent_mcu, 1, Len(got))
                 ELSE got = sent_mcu
           /\ info.se_version = Some(dev.version)
           /\ info.se_target_id = info.target_id
\* "2.1" followed by two NULs keeps one of them
C16_Witness ==
    /\ Decoded
    /\ Whole
    /\ ValidApplication(dev)
    /\ dev.tail[1] = <<50, 46, 49, 0, 0>>
    /\ info.mcu_version = Some(<<50, 46, 49, 0>>)
    /\ info.version = <<50, 46, 49>>

\* C17. The whole identity of a device in bootloader mode: a first field of
\* five bytes or more is the secure-element version and a DeviceInfo is
\* returned only with a second field of four bytes, the secure-element target
\* id; a first field of fewer than five bytes gives a DeviceInfo without
\* secure-element version, and is the target id; there is no MCU version.
C17_BootloaderMode ==
    (pc = "done" /\ Whole /\ BootTarget(dev.target) /\ IsText(dev.version))
        => IF Len(dev.tail[1]) >= 5
           THEN result = Success
                    => /\ info.se_version = Some(dev.tail[1])
                       /\ Len(dev.tail) >= 2
                       /\ Len(dev.tail[2]) = 4
                       /\ info.se_target_id = TargetOf(dev.tail[2])
                       /\ info.mcu_version = None
           ELSE /\ result = Success
                /\ info.se_version = None
                /\ info.mcu_version = None
                /\ Len(dev.tail[1]) = 4 => info.se_target_id = TargetOf(dev.tail[1])

\* C18. An identity that is well formed (application mode, or either layout
\* of the bootloader mode) and cut short, at the end of a field or anywhere
\* else, makes the query return the error "Not enough data".
C18_Truncated ==
    (/\ pc = "done"
     /\ CutShort
     /\ \/ ValidApplication(dev) /\ Len(dev.tail) = 1
        \/ ValidBootloader(dev))
        => result = Failure("Not enough data")
\* cut after the version field of a bootloader, where the target id should follow
C18_Witness ==
    /\ pc = "done"
    /\ CutShort
    /\ ValidBootloader(dev)
    /\ Len(dev.tail) = 2
    /\ Len(answer.data) = 6 + Len(dev.version) + Len(dev.flags) + 1 + Len(dev.tail[1])
    /\ Len(answer.data) \in Boundaries(dev)
    /\ result = Failure("Not enough data")

\* C19. The whole identity of a device in bootloader mode with a version of
\* five bytes or more and a second field that is not four bytes long makes
\* the query return an error.
C19_MalformedField ==
    (/\ pc = "done"
     /\ Whole
     /\ BootTarget(dev.target)
     /\ IsText(dev.version)
     /\ Len(dev.tail) = 2
     /\ Len(dev.tail[1]) >= 5
     /\ IsText(dev.tail[1])
     /\ Len(dev.tail[2]) # 4)
        => result.kind = "Err"

----------------------------------------------------------------------------
(* Properties of the decoding of commands. *)

\* the k-th byte (from 1) that a string of hex digits spells
ByteAt(s, k) == 16 * HexVal(s[2 * k - 1]) + HexVal(s[2 * k])
\* hex digits, an even number of them, five bytes or more, and as many bytes
\* after the fifth as the fifth says
WellFormedCommand(s) ==
    /\ Len(s) % 2 = 0
    /\ \A k \in 1..Len(s) : IsHexChar(s[k])
    /\ Len(s) >= 10
    /\ Len(s) = 2 * (5 + ByteAt(s, 5))

\* C20. The string of an `exchange` instruction is decoded to a command, and
\* that command handed to the device, exactly when it is well formed: class,
\* instruction and parameters are its first four bytes and the payload the
\* bytes after the fifth. Any other string ends the loop with a decoding
\* error, nothing handed to the device and nothing sent.
C20_CommandDecoding ==
    (msg.query = "exchange" /\ msg.data.tag = "string")
        => LET s == msg.data.str IN
           IF WellFormedCommand(s)
           THEN /\ deser_apdu_command(s).ok
                /\ Len(exchanged) = mark.exch + 1
                /\ Last(exchanged) =
                     [cla |-> ByteAt(s, 1), ins |-> ByteAt(s, 2),
                      p1 |-> ByteAt(s, 3), p2 |-> ByteAt(s, 4),
                      data |-> [k \in 1..((Len(s) \div 2) - 5) |-> ByteAt(s, k + 5)]]
           ELSE /\ ~deser_apdu_command(s).ok
                /\ pc = "done"
                /\ result \in {Failure("OddLength"), Failure("InvalidHexCharacter"),
                               Failure("Invalid command")}
                /\ Len(exchanged) = mark.exch
                /\ Len(sent) = mark.sent
\* a command of six bytes in mixed case is at the device
C20_Witness ==
    /\ pc = "exchange"
    /\ msg.data.str = CmdB
    /\ Last(exchanged) = [cla |-> 224, ins |-> 216, p1 |-> 0, p2 |-> 0, data |-> <<171>>]
\* a command that carries more bytes than it declares was rejected
C20_WitnessRejected ==
    /\ pc = "done"
    /\ msg.query = "exchange"
    /\ msg.data.str = BadLong
    /\ result = Failure("Invalid command")

\* [class][instruction][param1][param2][payload_length][payload]
EncodeCommand(c) == <<c.cla, c.ins, c.p1, c.p2, Len(c.data)>> \o c.data

\* C21. Every command handed to the device has a payload of 255 bytes at
\* most, and the command decoded from the string of an `exchange`
\* instruction, or from an entry of a `bulk` instruction, encodes back to the
\* bytes that string spells.
C21_DecodeEncode ==
    /\ \A k \in 1..Len(exchanged) : Len(exchanged[k].data) <= 255
    /\ pc = "exchange"
        => EncodeCommand(Last(exchanged)) = hex_decode(msg.data.str).val
    /\ pc = "bulk_exchange"
        => EncodeCommand(Last(exchanged)) = hex_decode(msg.data.list[bulk_i]).val
\* a command with a payload, from a bulk instruction
C21_Witness ==
    /\ pc = "bulk_exchange"
    /\ msg.data.list[bulk_i] = CmdB
    /\ EncodeCommand(Last(exchanged)) = <<224, 216, 0, 0, 1, 171>>

\* ---------------------------------------------------------------------------
\* Properties of the operations
\* ---------------------------------------------------------------------------

\* the name of the variant of the application the operation is about
VariantName == IF op.is_testnet THEN NameBitcoinTest ELSE NameBitcoin
\* the inventory the device returned holds the variant
SameLetter(x, y) ==
    \/ x = y
    \/ x \in 65..90 /\ y = x + 32
    \/ y \in 65..90 /\ x = y + 32
\* two names that differ by the casing of their letters at most
SameName(a, b) ==
    Len(a) = Len(b) /\ \A k \in 1..Len(a) : SameLetter(a[k], b[k])
HasApp == \E k \in 1..Len(installed_apps) : SameName(installed_apps[k].name, VariantName)
\* the relay was opened
Opened == \E k \in 1..Len(requests) : requests[k] = "relay"
\* the identity of the device was queried
AskedIdentity == \E k \in 1..Len(exchanged) : exchanged[k] = GET_VERSION_COMMAND
\* the operation returned
OpReturned == pc = "done" /\ ret = "none"
\* the inventory was returned whole and nothing was asked of the device since
Listed == OpReturned /\ result = Success /\ ~AskedIdentity

\* C22. install_bitcoin_app returns AlreadyInstalled when the inventory holds
\* the variant, and then it has asked nothing of the catalog, has not queried
\* the identity and has opened no relay; when it did one of these, the
\* inventory does not hold the variant.
C22_AlreadyInstalled ==
    op.name = "install_bitcoin_app" =>
        /\ Listed /\ HasApp => outcome = AlreadyInstalled
        /\ outcome = AlreadyInstalled
            => HasApp /\ requests = <<>> /\ ~AskedIdentity /\ url = NoUrl
        /\ requests # <<>> \/ AskedIdentity \/ url # NoUrl => ~HasApp
\* the testnet variant is second in the inventory
C22_Witness ==
    /\ op = [name |-> "install_bitcoin_app", is_testnet |-> TRUE]
    /\ Len(installed_apps) = 2
    /\ installed_apps[1].name = NameBitcoin
    /\ installed_apps[2].name = NameBitcoinTest
    /\ outcome = AlreadyInstalled
    /\ requests = <<>>

\* the catalog answered apps/hash with no record for the hash: an empty
\* array, or a null
NoRecordForHash ==
    /\ catalog.by_hash.state = "ok"
    /\ \/ catalog.by_hash.val = <<>>
       \/ ~catalog.by_hash.val[1].some

\* C23. When the catalog has no record for the hash of the installed
\* application, update_bitcoin_app returns AppNotFound at once: no other
\* request follows apps/hash, and no relay is opened.
C23_HashNotFound ==
    op.name = "update_bitcoin_app" /\ NoRecordForHash =>
        /\ OpReturned
        /\ outcome = AppNotFound
        /\ requests = <<"apps/hash">>
        /\ ~Opened

\* C24. When the installed record and the latest record carry the same
\* version, update_bitcoin_app returns AlreadyLatest and has opened no relay.
C24_AlreadyLatest ==
    op.name = "update_bitcoin_app" =>
        /\ /\ installed_app.some
           /\ latest_app.some
           /\ installed_app.val.version = latest_app.val.version
           => /\ OpReturned
              /\ outcome = AlreadyLatest
              /\ ~Opened
              /\ url = NoUrl
        /\ outcome = AlreadyLatest
            => /\ installed_app.some
               /\ latest_app.some
               /\ installed_app.val.version = latest_app.val.version
               /\ requests = <<"apps/hash", "apps/by-target">>
\* the two records are of the same version
C24_Witness ==
    /\ op = [name |-> "update_bitcoin_app", is_testnet |-> FALSE]
    /\ outcome = AlreadyLatest
    /\ installed_app = Some(BitcoinAppInfo(NameBitcoin, "2.2.0", "bitcoin/2.2.0"))
    /\ latest_app = installed_app
    /\ requests = <<"apps/hash", "apps/by-target">>
    /\ url = NoUrl

\* C25. update_bitcoin_app returns NotInstalled when the inventory does not
\* hold the variant, and then it has asked nothing of the catalog, has not
\* queried the identity and has opened no relay; when it did one of these,
\* the inventory holds the variant.
C25_NotInstalled ==
    op.name = "update_bitcoin_app" =>
        /\ Listed /\ ~HasApp => outcome = NotInstalled
        /\ outcome = NotInstalled
            => ~HasApp /\ requests = <<>> /\ ~AskedIdentity /\ url = NoUrl
        /\ requests # <<>> \/ AskedIdentity \/ url # NoUrl => HasApp
\* the inventory holds the other variant only
C25_Witness ==
    /\ op = [name |-> "update_bitcoin_app", is_testnet |-> FALSE]
    /\ Len(installed_apps) = 1
    /\ installed_apps[1].name = NameBitcoinTest
    /\ outcome = NotInstalled
    /\ requests = <<>>
    /\ ~AskedIdentity

\* the catalog answered apps/by-target with no record of the variant
NoRecordForTarget ==
    /\ catalog.by_target.state = "ok"
    /\ \A k \in 1..Len(catalog.by_target.val) :
        catalog.by_target.val[k].version_name # VariantName

\* C26. When the catalog resolves no record of the variant for the device,
\* install_bitcoin_app and update_bitcoin_app return AppNotFound and the relay
\* is never opened; the relay is opened only with a record of the variant.
C26_AppNotFound ==
    op.name \in {"install_bitcoin_app", "update_bitcoin_app"} =>
        /\ NoRecordForTarget
            => OpReturned /\ outcome = AppNotFound /\ ~Opened /\ url = NoUrl
        /\ Opened
            => /\ ~NoRecordForTarget
               /\ latest_app.some
               /\ latest_app.val.version_name = VariantName
\* the catalog has the other variant only, for install and for update
C26_Witness ==
    /\ op = [name |-> "install_bitcoin_app", is_testnet |-> TRUE]
    /\ catalog.by_target =
        HttpOk(<<BitcoinAppInfo(NameBitcoin, "2.2.0", "bitcoin/2.2.0")>>)
    /\ outcome = AppNotFound
    /\ ~Opened
C26_WitnessUpdate ==
    /\ op = [name |-> "update_bitcoin_app", is_testnet |-> FALSE]
    /\ catalog.by_target = HttpOk(<<>>)
    /\ installed_app.some
    /\ outcome = AppNotFound
    /\ ~Opened

\* what an operation of the library returns for a result of the relay loop
OfRelay(r) == IF r = Success THEN OpOk ELSE AnyErr(r.err)
\* the relay was opened on the install endpoint, for the device and the
\* record
InstallUrl(rec) ==
    /\ url.endpoint = "install"
    /\ url.names =
        <<"targetId", "perso", "deleteKey", "firmware", "firmwareKey", "hash">>
    /\ url.targetId = TargetOf(dev.target)
    /\ url.perso = rec.perso
    /\ url.deleteKey = rec.delete_key
    /\ url.firmware = rec.firmware
    /\ url.firmwareKey = rec.firmware_key
    /\ url.hash = rec.hash

\* C27. When update_bitcoin_app opens the relay, the installed and the latest
\* record are of different versions, the relay is opened with the target id of
\* the device and with the perso, deleteKey, firmware, firmwareKey and hash of
\* the latest record, and update returns what the relay loop returned; update
\* returns with both records resolved and of different versions only after
\* the relay loop.
C27_UpdateRelay ==
    op.name = "update_bitcoin_app" =>
        /\ Opened =>
            /\ requests = <<"apps/hash", "apps/by-target", "relay">>
            /\ latest_app.some
            /\ installed_app.some => installed_app.val.version # latest_app.val.version
            /\ InstallUrl(latest_app.val)
            /\ OpReturned
            /\ outcome = OfRelay(result)
        /\ /\ OpReturned
           /\ installed_app.some
           /\ latest_app.some
           /\ installed_app.val.version # latest_app.val.version
           => Opened
        /\ url # NoUrl => Opened
\* the relay was opened for version 2.2.0 when 2.1.0 is installed
C27_Witness ==
    /\ op = [name |-> "update_bitcoin_app", is_testnet |-> FALSE]
    /\ installed_app = Some(BitcoinAppInfo(NameBitcoin, "2.1.0", "bitcoin/2.1.0"))
    /\ latest_app = Some(BitcoinAppInfo(NameBitcoin, "2.2.0", "bitcoin/2.2.0"))
    /\ Opened
    /\ url.hash = latest_app.val.hash
    /\ url.hash # installed_app.val.hash
    /\ outcome = OpOk

\* an install operation: install_bitcoin_app of the library, install_app of
\* the application
IsInstall == op.name \in {"install_bitcoin_app", "install_app"}

\* C28. In every install operation the inventory of the device is queried
\* before any lookup in the catalog and before the relay is opened, and the
\* relay is opened only when the inventory does not hold the variant.
C28_InstallRechecks ==
    IsInstall /\ requests # <<>> =>
        /\ exchanged # <<>>
        /\ exchanged[1] = LIST_APPS_COMMAND
        /\ ~HasApp

\* the identity query returned the identity of the device
Identified ==
    /\ Whole
    /\ info.target_id = TargetOf(dev.target)

\* C29. genuine_check queries the identity first, then the catalog for the
\* firmware of the device, then opens the relay on the genuine endpoint with
\* the target id of the device and the perso of the firmware and nothing
\* else, and returns what the relay loop returned; when the identity query
\* fails it contacts neither the catalog nor the relay.
C29_GenuineCheck ==
    op.name = "genuine_check" =>
        /\ requests \in {<<>>, <<"get_device_version">>,
                         <<"get_device_version", "get_firmware_version">>,
                         <<"get_device_version", "get_firmware_version", "relay">>}
        /\ exchanged \in {<<>>, <<GET_VERSION_COMMAND>>}
        /\ requests # <<>> => exchanged = <<GET_VERSION_COMMAND>> /\ Identified
        /\ ~Identified => requests = <<>> /\ url = NoUrl /\ ~firmware_info.some
        /\ Opened =>
            /\ firmware_info.some
            /\ url = [NoUrl EXCEPT !.endpoint = "genuine",
                                   !.names = <<"targetId", "perso">>,
                                   !.targetId = TargetOf(dev.target),
                                   !.perso = firmware_info.val]
            /\ OpReturned
            /\ outcome = OfRelay(result)
        /\ url # NoUrl => Opened
\* the check ran to the end of the relay loop
C29_Witness ==
    /\ op.name = "genuine_check"
    /\ requests = <<"get_device_version", "get_firmware_version", "relay">>
    /\ url.perso = "perso_11"
    /\ url.targetId = U32(13056, 4)
    /\ outcome = OpOk
\* the identity query failed
C29_WitnessFailed ==
    /\ op.name = "genuine_check"
    /\ OpReturned
    /\ ~Identified
    /\ outcome.kind = "Any"
    /\ requests = <<>>

\* ledger_api.exchange was called and has not returned
Outstanding == pc \in {"exchange", "bulk_exchange"}

\* C30. In every operation a step hands at most one command to the device,
\* and none while an exchange is outstanding; an exchange is outstanding for
\* the last command handed over only; no request goes to the catalog or the
\* relay while an exchange is outstanding.
C30_Step ==
    /\ Len(exchanged') <= Len(exchanged) + 1
    /\ exchanged' # exchanged => ~Outstanding /\ SubSeq(exchanged', 1, Len(exchanged)) = exchanged
    /\ Outstanding' => exchanged' # exchanged
    /\ requests' # requests => ~Outstanding /\ ~Outstanding' /\ exchanged' = exchanged
C30_Exclusive == [][C30_Step]_vars
\* the second command of a bulk instruction is with the device, after the
\* first returned
C30_Witness ==
    /\ pc = "bulk_exchange"
    /\ bulk_i = 2
    /\ Len(exchanged) = 2
\* update has listed the inventory in two exchanges, queried the identity
\* and then asked the catalog
C30_WitnessUpdate ==
    /\ op.name = "update_bitcoin_app"
    /\ exchanged = <<LIST_APPS_COMMAND, CONTINUE_LIST_APPS_COMMAND, GET_VERSION_COMMAND>>
    /\ requests = <<"apps/hash", "apps/by-target">>

\* the loop is between two reads: an instruction is being executed
Busy == pc \in {"exchange", "bulk", "bulk_exchange"}
\* the message just read is `success` or `error`
FinalRead ==
    /\ received # <<>>
    /\ IsInstr(Last(received), "success") \/ IsInstr(Last(received), "error")

\* C31. An instruction that is being executed comes to its end, so that the
\* loop reads the next message or has terminated, and a `success` or `error`
\* that is read terminates the loop; the loop waiting for a message
\* terminates only by reading one or by a failure of the channel, and a
\* `warning` leaves it waiting.
C31_Step ==
    /\ pc = "read" /\ pc' = "done"
        => \/ Len(received') = Len(received) + 1
           \/ result' = Failure("socket read")
    /\ pc = "read" /\ Len(received') = Len(received) + 1
                   /\ IsInstr(Last(received'), "warning")
        => pc' = "read" /\ result' = Running
    /\ pc = "read" /\ received' = received
        => pc' = "done" /\ result' = Failure("socket read")
C31_Liveness ==
    /\ Busy ~> ~Busy
    /\ [](FinalRead => pc = "done")
    /\ [][C31_Step]_vars
\* a bulk instruction of two commands came to its end and the `success`
\* that followed terminated the loop
C31_Witness ==
    /\ pc = "done"
    /\ result = Success
    /\ Len(received) = 2
    /\ IsInstr(received[1], "bulk")
    /\ Len(exchanged) = 2
    /\ Len(sent) = 1
\* after an answered exchange the remote sent a warning and nothing else:
\* the loop waits
C31_WitnessWaiting ==
    /\ pc = "read"
    /\ result = Running
    /\ Len(received) = MaxMsgs
    /\ IsInstr(received[1], "exchange")
    /\ IsInstr(Last(received), "warning")
    /\ Len(sent) = 1

\* the loop has returned
Terminated == pc = "done"

\* C36. Once the loop has returned, no step of it is possible: no message is
\* read, no command handed to the device and no reply sent, whatever the
\* remote sends after `success`.
C36_Absorbing ==
    /\ Terminated => ~ENABLED NextRelay
    /\ Terminated => result # Running
    /\ result # Running => Terminated
\* the loop returned on `success`, the first message; the remote could send
\* more
C36_Witness ==
    /\ Terminated
    /\ Len(received) = 1
    /\ Len(received) < MaxMsgs
    /\ IsInstr(received[1], "success")
    /\ result = Success
    /\ exchanged = <<>>
    /\ sent = <<>>

IsPrefix(a, b) == Len(a) <= Len(b) /\ SubSeq(b, 1, Len(a)) = a
\* the entries of a bulk list before the first entry that does not decode
RECURSIVE BeforeMalformed(_)
BeforeMalformed(l) ==
    IF l = <<>> THEN <<>>
    ELSE IF l[1] # <<>> /\ ~WellFormedCommand(l[1]) THEN <<>>
    ELSE <<l[1]>> \o BeforeMalformed(Tail(l))
\* the commands a message asks for: the command of an `exchange`, the
\* non-empty entries of a `bulk` in the order of the list
CommandsAsked(h) ==
    IF IsInstr(h, "exchange") /\ h.data.tag = "string" /\ WellFormedCommand(h.data.str)
    THEN <<deser_apdu_command(h.data.str).val>>
    ELSE IF IsInstr(h, "bulk") /\ h.data.tag = "list"
    THEN CommandsOf(BeforeMalformed(h.data.list))
    ELSE <<>>
\* the commands of all the messages, in the order of arrival
RECURSIVE AllCommandsAsked(_)
AllCommandsAsked(r) ==
    IF r = <<>> THEN <<>>
    ELSE CommandsAsked(r[1]) \o AllCommandsAsked(Tail(r))

\* C37. The commands handed to the device are, in order and once each, the
\* commands of the messages read so far up to the point the loop has reached:
\* a prefix of them at any time, and all of them whenever the loop reads the
\* next message or has returned on `success`.
C37_ExecutionOrder ==
    /\ IsPrefix(exchanged, AllCommandsAsked(received))
    /\ pc = "read" \/ (Terminated /\ result = Success)
        => exchanged = AllCommandsAsked(received)
    /\ Len(AllCommandsAsked(received)) - Len(exchanged)
        <= (IF received = <<>> THEN 0 ELSE Len(CommandsAsked(Last(received))))
\* an exchange, then a bulk with an empty entry between two commands
C37_Witness ==
    /\ pc = "read"
    /\ Len(received) = 2
    /\ IsInstr(received[1], "exchange")
    /\ received[2].data = DataList(<<CmdB, Empty>>)
    /\ exchanged = <<deser_apdu_command(CmdA).val, deser_apdu_command(CmdB).val>>
\* the device failed on the first command of a bulk of two
C37_WitnessFailure ==
    /\ Terminated
    /\ result = Failure("transport")
    /\ received[1].data = DataList(<<CmdA, CmdB>>)
    /\ exchanged = <<deser_apdu_command(CmdA).val>>

\* the message just read is an `exchange` without a single command that
\* decodes, or a `bulk` without a list
ShapeError ==
    /\ received # <<>>
    /\ LET h == Last(received) IN
       \/ /\ IsInstr(h, "exchange")
          /\ h.data.tag # "string" \/ ~WellFormedCommand(h.data.str)
       \/ /\ IsInstr(h, "bulk")
          /\ h.data.tag # "list"

\* C38. An `exchange` whose data is absent, is a list or does not decode, and
\* a `bulk` whose data is absent or is a single string, end the loop with an
\* error; no command of that instruction is handed to the device and no reply
\* is sent.
C38_ShapeErrors ==
    ShapeError =>
        /\ Terminated
        /\ result.kind = "Err"
        /\ Last(received).data.tag # "string" =>
            result.err = (IF IsInstr(Last(received), "exchange")
                          THEN "A single command is expected in 'exchange' mode."
                          ELSE "Expecting a list of commands in bulk mode.")
        /\ IsInstr(Last(received), "bulk") =>
            result.err = "Expecting a list of commands in bulk mode."
        /\ Len(exchanged) = mark.exch
        /\ Len(sent) = mark.sent
\* after an answered exchange, a bulk that carries a single command
C38_Witness ==
    /\ Len(received) = 2
    /\ IsInstr(received[1], "exchange")
    /\ IsInstr(received[2], "bulk")
    /\ received[2].data = DataStr(CmdA)
    /\ Terminated
    /\ Len(exchanged) = 1
    /\ Len(sent) = 1
\* an exchange that carries a list
C38_WitnessExchange ==
    /\ Len(received) = 1
    /\ IsInstr(received[1], "exchange")
    /\ received[1].data = DataList(<<CmdA>>)
    /\ result = Failure("A single command is expected in 'exchange' mode.")
    /\ exchanged = <<>>
    /\ sent = <<>>

\* C35. The identity query is total: whatever bytes the device answers, it
\* returns a DeviceInfo or an error value.
C35_DecodingTotal ==
    pc = "done" => result.kind \in {"Ok", "Err"}


\* C33: when the device answers the identity query with a status that is not
\* 0x9000, the query returns an error and decodes nothing, "Device is
\* locked." for 0x5515 and "Device isn't ready." for the others, in the copy
\* of the library and in the copy of the GUI alike.
\* The copy of src/ledger.rs does not look at the status: it decodes the
\* payload whatever the status says.
RefusedIdentity ==
    /\ exchanged # <<>>
    /\ Last(exchanged) = GET_VERSION_COMMAND
    /\ answer.ok
    /\ answer.retcode # StatusOK
C33_StatusHandling ==
    RefusedIdentity
        => /\ pc = "done"
           /\ result = Failure(IF answer.retcode = StatusLocked
                               THEN "Device is locked."
                               ELSE "Device isn't ready.")
           /\ info = NoInfo


\* C32: an application that the device reports under the name "Bitcoin"
\* (resp. "Bitcoin Test") in any casing is recognised as the installed
\* mainnet (resp. testnet) application by every caller that checks
\* installation: bitcoin_app_installed of the library, on behalf of install
\* and update, and check_apps_installed of the GUI.
\* check_apps_installed compares with `==`, so "bitcoin" is not recognised.
Reports(name) ==
    \E k \in 1..Len(installed_apps) : SameName(installed_apps[k].name, name)
LibraryRecognises ==
    /\ op.name = "install_bitcoin_app" /\ Listed /\ HasApp
        => outcome = AlreadyInstalled
    /\ op.name = "update_bitcoin_app" /\ OpReturned /\ outcome = NotInstalled
        => ~HasApp
GuiRecognises ==
    op.name = "get_version_info" /\ pc \in {"main_version", "test_version"}
        => /\ checked.mainnet <=> Reports(NameBitcoin)
           /\ checked.testnet <=> Reports(NameBitcoinTest)
C32_CaseInsensitive == LibraryRecognises /\ GuiRecognises


\* C40: get_version_info resolves the version of each variant from the catalog
\* record of that variant: the mainnet_version of an installed mainnet
\* application is the version of the "Bitcoin" record of the answer, the
\* testnet_version of an installed testnet application that of the "Bitcoin
\* Test" record; a variant that is not installed is NotInstalled and costs no
\* catalog lookup; and the function returns Err exactly when the identity
\* query failed.
\* Both lookups are made with testnet = true, so the mainnet version is read
\* from the "Bitcoin Test" record.
VersionOfRecord(answers, name) ==
    LET hits == {k \in 1..Len(answers) : SameName(answers[k].version_name, name)}
    IN IF hits = {} THEN VersionNone
       ELSE VersionInstalled(<<answers[CHOOSE k \in hits : \A h \in hits : k <= h].version>>)
Looked(name) ==
    IF catalog.by_target.state = "ok"
    THEN VersionOfRecord(catalog.by_target.val, name)
    ELSE VersionNone
GotVersions == op.name = "get_version_info" /\ OpReturned /\ pc = "done"
                   /\ version_info.testnet_version.some
MainnetResolved ==
    op.name = "get_version_info" /\ pc = "test_version"
        => IF checked.mainnet
           THEN /\ requests = <<"apps/by-target">>
                /\ version_info.mainnet_version = Some(Looked(NameBitcoin))
           ELSE /\ requests = <<>>
                /\ version_info.mainnet_version = Some(VersionNotInstalled)
TestnetResolved ==
    GotVersions
        => IF checked.testnet
           THEN /\ Len(requests) = (IF checked.mainnet THEN 2 ELSE 1)
                /\ version_info.testnet_version = Some(Looked(NameBitcoinTest))
           ELSE /\ Len(requests) = (IF checked.mainnet THEN 1 ELSE 0)
                /\ version_info.testnet_version = Some(VersionNotInstalled)
ErrIffIdentityFails ==
    op.name = "get_version_info" /\ OpReturned
        => (outcome = UnitErr
                <=> exchanged = <<GET_VERSION_COMMAND>> /\ result.kind = "Err")
C40_OwnRecord == MainnetResolved /\ TestnetResolved /\ ErrIffIdentityFails


\* C39: the listing reads the payload of a response and never its status. A
\* response to list-apps or to a continuation that has a failure status and
\* an empty payload ends the listing with success and with the entries read
\* so far, none if it was the first response; install then goes on as for an
\* application that is not installed and update returns NotInstalled,
\* whatever the device holds.
RefusedListing ==
    /\ exchanged # <<>>
    /\ Last(exchanged) \in {LIST_APPS_COMMAND, CONTINUE_LIST_APPS_COMMAND}
    /\ answer.ok
    /\ answer.retcode # StatusOK
    /\ answer.data = <<>>
    /\ pc # "batch"
FirstResponse == Last(exchanged) = LIST_APPS_COMMAND
C39_StatusIgnored ==
    RefusedListing
        => /\ \/ result = Success
              \/ /\ op.name \in {"install_bitcoin_app", "update_bitcoin_app"}
                 /\ pc = "version"
                 /\ result = Running
                 /\ HasApp <=> op.name = "update_bitcoin_app"
           /\ FirstResponse => installed_apps = <<>>
           /\ FirstResponse /\ op.name = "install_bitcoin_app" /\ ret # "bitcoin_app_installed"
                => pc = "version" /\ outcome = OpRunning
           /\ FirstResponse /\ op.name = "update_bitcoin_app" /\ ret # "bitcoin_app_installed"
                => OpReturned /\ outcome = NotInstalled /\ requests = <<>>
\* update returned NotInstalled for a device that holds the application,
\* after a locked device answered list-apps with no payload
C39_Witness ==
    /\ RefusedListing
    /\ FirstResponse
    /\ op.name = "update_bitcoin_app"
    /\ OpReturned
    /\ outcome = NotInstalled
    /\ \E k \in 1..Len(apps) : apps[k].name = VariantName
\* install went on to the identity query in the same situation
C39_WitnessInstall ==
    /\ RefusedListing
    /\ FirstResponse
    /\ op.name = "install_bitcoin_app"
    /\ pc = "version"
    /\ \E k \in 1..Len(apps) : apps[k].name = VariantName
\* a continuation that was refused ended the listing with the entries so far
C39_WitnessContinuation ==
    /\ RefusedListing
    /\ ~FirstResponse
    /\ installed_apps # <<>>
    /\ Len(installed_apps) < Len(apps)
    /\ result = Success

====
